---- MODULE Spec2Model ----
(***************************************************************************)
(* Offer normalization, round-trip splitting, penalty aggregation and the  *)
(* flight-details page of the FLIGHT booking application.                  *)
(*                                                                         *)
(* The page (Frontend/app/flights/[id]/page.tsx) and the flight card       *)
(* (Frontend/components/enhanced-flight-card.tsx) are modelled from their  *)
(* code.  The transformation engine (Backend/utils/data_transformer*.py)   *)
(* is described by spec.md and the Backend documents only; its operators   *)
(* follow sections 4.1-4.5 and 7 of spec.md.                               *)
(***************************************************************************)
EXTENDS Integers, Sequences, FiniteSets, TLC

VARIABLES
    \* flight-details page (page.tsx)
    storedOffer,      \* the offer of the stored search response whose id is flightId
    flightOffer,      \* useState flightOffer
    pricedOffer,      \* useState pricedOffer
    formattedFlight,  \* the object built for display once both are set
    cardStops,        \* the stop count the flight card shows
    \* engine: one transformation call over a batch of raw offers
    rawOffers, pos, out, dropped, diagnostics,
    \* engine: trip splitter applied to one canonical offer
    parent, enableRoundtripSplit, legs, resplit, splitPc,
    \* engine: penalty aggregator applied to one itinerary
    itinerary, penalties, fareRules, penaltyPc,
    \* engine: classification of one penalty record
    penaltyRecord, classified,
    \* flight-details page: fetchFlightPrice (page.tsx)
    airShoppingResponseData,  \* the stored search response, as retrieved
    flightId,                 \* params.id
    tripType,                 \* searchParams.get('tripType') || 'one-way'
    returnFlightOffer,        \* useState returnFlightOffer
    shoppingResponseId,       \* let shoppingResponseId
    airShoppingRsData,        \* nesting level of the object the id was found in
    pricingRequests,          \* calls of api.getFlightPrice made so far
    error,                    \* useState error
    isLoading,                \* useState isLoading
    fetchPc,                  \* where fetchFlightPrice stands
    \* engine: one raw offer normalized twice
    identRaw, firstOffer, secondOffer, uuidsIssued, identPc,
    \* engine: the offers of one response normalized by a pool of workers
    workBatch, sequential, holding, results, generatorIssued, gathered, workPc,
    \* BookingForm: one call of validatePassenger
    candidate, validation,
    \* BookingForm: useState values, the last window.confirm, sessionStorage
    currentStep, passengerCount, passengers, contactInfo, termsAccepted,
    confirmShown, bookingData,
    \* browser: localStorage, the airShoppingResponse URL parameter, the clock,
    \* the source fetchFlightPrice took its data from
    localStorage, searchParams, now, flightDataSource,
    \* flight-details page: the pricing requests answered so far, the request
    \* whose response is in pricedOffer
    answered, pricedRequest,
    \* api-client: the searchFlights calls and their promises, the time since
    \* the latest call, the debounce timer and its kept arguments, the POSTs
    calls, sinceCall, timerId, lastArgs, posts,
    \* FlightsPage: the displayed and the fetched flights, the filters, the
    \* loading flag, the page, the searches in flight and the runs of the load effect
    flights, allFlights, filters, loading, currentPage, pendingSearches, searchesRun

displayVars == <<storedOffer, flightOffer, pricedOffer, formattedFlight, cardStops>>
batchVars   == <<rawOffers, pos, out, dropped, diagnostics>>
splitVars   == <<parent, enableRoundtripSplit, legs, resplit, splitPc>>
penaltyVars == <<itinerary, penalties, fareRules, penaltyPc>>
classVars   == <<penaltyRecord, classified>>
fetchVars   == <<airShoppingResponseData, flightId, tripType, returnFlightOffer,
                 shoppingResponseId, airShoppingRsData, pricingRequests, error,
                 isLoading, fetchPc>>
identVars   == <<identRaw, firstOffer, secondOffer, uuidsIssued, identPc>>
workerVars  == <<workBatch, sequential, holding, results, generatorIssued, gathered,
                 workPc>>
validateVars == <<candidate, validation>>
formVars == <<currentStep, passengerCount, passengers, contactInfo, termsAccepted,
              confirmShown, bookingData>>
storageVars == <<localStorage, searchParams, now, flightDataSource>>
refetchVars == <<answered, pricedRequest>>
debounceVars == <<calls, sinceCall, timerId, lastArgs, posts>>
resultsVars == <<flights, allFlights, filters, loading, currentPage, pendingSearches, searchesRun>>
vars == <<displayVars, batchVars, splitVars, penaltyVars, classVars, fetchVars,
         identVars,
         workerVars,
         validateVars,
         formVars,
         storageVars,
         refetchVars,
         debounceVars,
         resultsVars>>

\* everything but one component
notDisplay == <<batchVars, splitVars, penaltyVars, classVars, fetchVars, identVars, workerVars, validateVars, formVars, storageVars, refetchVars, debounceVars, resultsVars>>
notBatch   == <<displayVars, splitVars, penaltyVars, classVars, fetchVars, identVars, workerVars, validateVars, formVars, storageVars, refetchVars, debounceVars, resultsVars>>
notSplit   == <<displayVars, batchVars, penaltyVars, classVars, fetchVars, identVars, workerVars, validateVars, formVars, storageVars, refetchVars, debounceVars, resultsVars>>
notPenalty == <<displayVars, batchVars, splitVars, classVars, fetchVars, identVars, workerVars, validateVars, formVars, storageVars, refetchVars, debounceVars, resultsVars>>
notClass   == <<displayVars, batchVars, splitVars, penaltyVars, fetchVars, identVars, workerVars, validateVars, formVars, storageVars, refetchVars, debounceVars, resultsVars>>
notFetch   == <<batchVars, splitVars, penaltyVars, classVars, identVars, workerVars, validateVars, formVars, storageVars, refetchVars, debounceVars, resultsVars>>
notIdent   == <<displayVars, batchVars, splitVars, penaltyVars, classVars, fetchVars, workerVars, validateVars, formVars, storageVars, refetchVars, debounceVars, resultsVars>>
notWorkers == <<displayVars, batchVars, splitVars, penaltyVars, classVars, fetchVars, identVars, validateVars, formVars, storageVars, refetchVars, debounceVars, resultsVars>>
notValidate == <<displayVars, batchVars, splitVars, penaltyVars, classVars, fetchVars, identVars, workerVars, formVars, storageVars, refetchVars, debounceVars, resultsVars>>
notForm == <<displayVars, batchVars, splitVars, penaltyVars, classVars, fetchVars, identVars, workerVars, validateVars, storageVars, refetchVars, debounceVars, resultsVars>>
notStorage == <<displayVars, batchVars, splitVars, penaltyVars, classVars, fetchVars, identVars, workerVars, validateVars, formVars, refetchVars, debounceVars, resultsVars>>
notRetrieve == <<batchVars, splitVars, penaltyVars, classVars, identVars, workerVars, validateVars, formVars, refetchVars, debounceVars, resultsVars>>
notRefetch == <<batchVars, splitVars, penaltyVars, classVars, identVars, workerVars, validateVars, formVars, debounceVars, resultsVars>>
notDebounce == <<displayVars, batchVars, splitVars, penaltyVars, classVars, fetchVars, identVars, workerVars, validateVars, formVars, storageVars, refetchVars, resultsVars>>
notResults == <<displayVars, batchVars, splitVars, penaltyVars, classVars, fetchVars, identVars, workerVars, validateVars, formVars, refetchVars, debounceVars>>

----------------------------------------------------------------------------
(* Bounds *)

\* most segment references one raw offer carries
MaxRefs == 3
\* most raw offers in one response
MaxOffers == 3
\* most segments of an itinerary handed to the splitter or the aggregator
MaxSegs == 4

----------------------------------------------------------------------------
(* Data *)

Airports == {"A", "B", "C"}

None == [kind |-> "none"]

SeqsUpTo(S, n) == UNION {[1..k -> S] : k \in 0..n}

Max2(a, b) == IF a >= b THEN a ELSE b
Min2(a, b) == IF a <= b THEN a ELSE b

\* The shared segment sub-list of a raw response, keyed by identifier.
SegmentList ==
    [SEG1 |-> [dep |-> "A", arr |-> "B"],
     SEG2 |-> [dep |-> "B", arr |-> "A"]]

\* an identifier no sub-list entry carries
DanglingRef == "SEG9"

RefIds == DOMAIN SegmentList \cup {DanglingRef}

Prices == {1200, 16409}


OfferIds == {<<"OFFER1">>, <<"OFFER2">>}

\* a canonical offer before any split: no direction, trip type as normalized
Unsplit == "none"

----------------------------------------------------------------------------
(* 4.1 Reference Resolver *)

\* One index entry per sub-list entry; built once per raw response.
ReferenceIndex == SegmentList

\* Lookup of an unknown key answers "not found" instead of failing.
Resolve(index, ref) ==
    IF ref \in DOMAIN index
    THEN [found |-> TRUE, segment |-> index[ref]]
    ELSE [found |-> FALSE, segment |-> [dep |-> "", arr |-> ""]]

----------------------------------------------------------------------------
(* 4.3 Offer Normalizer *)

StopsOf(segments) == Max2(0, Len(segments) - 1)

\* One raw offer to one canonical offer, or a typed failure.
NormalizeOffer(raw, index) ==
    LET n        == Len(raw.segRefs)
        resolved == [i \in 1..n |-> Resolve(index, raw.segRefs[i])]
        missing  == {i \in 1..n : ~resolved[i].found}
        segments == [i \in 1..n |-> resolved[i].segment]
        blank    == [id |-> raw.id, segments |-> <<>>, stops |-> 0, price |-> 0,
                     tripType |-> Unsplit, direction |-> Unsplit]
    IN  IF missing # {}
        THEN [ok |-> FALSE, reason |-> "ReferenceMissing", offer |-> blank]
        ELSE IF ~raw.hasPrice
        THEN [ok |-> FALSE, reason |-> "MissingPrice", offer |-> blank]
        ELSE [ok |-> TRUE, reason |-> "",
              offer |-> [id |-> raw.id, segments |-> segments,
                         stops |-> StopsOf(segments), price |-> raw.price,
                         tripType |-> Unsplit, direction |-> Unsplit]]

----------------------------------------------------------------------------
(* 4.4 Trip Splitter *)

\* airports touched before segment i+1 departs, the turnaround excluded
Visited(segments, i) ==
    {segments[1].dep} \cup {segments[j].arr : j \in 1..(i - 1)}

\* Boundary i is a reversal point when segment i arrives where segment i+1
\* departs and segment i+1 heads back to an airport already visited.
Reverses(segments, i) ==
    /\ segments[i].arr = segments[i + 1].dep
    /\ segments[i + 1].arr \in Visited(segments, i)

\* the first reversal point, without asking that the itinerary ends where it began
SplitPointAnyReversal(segments) ==
    LET n == Len(segments)
        candidates == {i \in 1..(n - 1) : Reverses(segments, i)}
    IN  IF n < 2 \/ candidates = {}
        THEN 0
        ELSE CHOOSE i \in candidates : \A j \in candidates : i <= j

\* The boundary to split at, 0 when there is none: the itinerary must end
\* where it began and the first reversal point is taken.
SplitPoint(segments) ==
    LET n == Len(segments)
        candidates == {i \in 1..(n - 1) : Reverses(segments, i)}
    IN  IF n < 2 \/ segments[1].dep # segments[n].arr \/ candidates = {}
        THEN 0
        ELSE CHOOSE i \in candidates : \A j \in candidates : i <= j

\* the identifier suffix of a leg
Suffix(direction) == IF direction = "outbound" THEN "-outbound" ELSE "-return"

\* the parent's price divided between the two legs
LegPriceHalved(offer) == offer.price \div 2

\* the price a leg carries
LegPrice(offer) == offer.price

LegOffer(offer, segments, direction) ==
    [id        |-> offer.id \o <<Suffix(direction)>>,
     segments  |-> segments,
     stops     |-> StopsOf(segments),
     price     |-> LegPrice(offer),
     tripType  |-> "round-trip",
     direction |-> direction]

\* the return leg cut one segment early, so the turnaround segment is in both legs
TripSplitterOverlapping(offer) ==
    LET b == SplitPoint(offer.segments)
        n == Len(offer.segments)
    IN  IF b = 0
        THEN <<offer>>
        ELSE <<LegOffer(offer, SubSeq(offer.segments, 1, b), "outbound"),
               LegOffer(offer, SubSeq(offer.segments, b, n), "return")>>

\* an offer without a boundary left out of the result
TripSplitterDropsUnsplit(offer) ==
    LET b == SplitPoint(offer.segments)
        n == Len(offer.segments)
    IN  IF b = 0
        THEN <<>>
        ELSE <<LegOffer(offer, SubSeq(offer.segments, 1, b), "outbound"),
               LegOffer(offer, SubSeq(offer.segments, b + 1, n), "return")>>

\* Two offers, one per leg, or the offer itself when no boundary is found.
TripSplitter(offer) ==
    LET b == SplitPoint(offer.segments)
        n == Len(offer.segments)
    IN  IF b = 0
        THEN <<offer>>
        ELSE <<LegOffer(offer, SubSeq(offer.segments, 1, b), "outbound"),
               LegOffer(offer, SubSeq(offer.segments, b + 1, n), "return")>>


----------------------------------------------------------------------------
(* Flight-details page: the offer built for display *)

AirlineNames == {"", "Kenya Airways"}

\* Duration strings.  NoDuration is a missing duration, EmptyText is "",
\* HM(h, m) is "<h>h <m>m", Iso(parts) is "PT" followed by its parts, each a
\* number and a unit letter ("PT1H15M"), and PlainText is any other string
\* that does not start with "PT".
NoDuration == [kind |-> "undefined"]
EmptyText == [kind |-> "empty"]
PlainText == [kind |-> "text"]
HM(h, m) == [kind |-> "hm", h |-> h, m |-> m]
Iso(parts) == [kind |-> "iso", parts |-> parts]
Part(n, unit) == [n |-> n, unit |-> unit]

\* An offer as the stored search response holds it.  hasSegments is FALSE for
\* an offer with no segments property (flightOffer.segments undefined).
StoredOffer(offer, hasSegments, airlineName) ==
    [id          |-> offer.id,
     hasSegments |-> hasSegments,
     segments    |-> IF hasSegments
                     THEN [i \in 1..Len(offer.segments) |->
                             [dep |-> offer.segments[i].dep,
                              arr |-> offer.segments[i].arr,
                              airlineName |-> "",
                              duration |-> NoDuration]]
                     ELSE <<>>,
     stops       |-> offer.stops,
     price       |-> offer.price,
     airlineName |-> airlineName,
     duration    |-> NoDuration]

\* a stored offer with a total duration and a duration on each segment
Timed(offer, total, durations) ==
    [offer EXCEPT !.duration = total,
                  !.segments = [i \in 1..Len(@) |-> [@[i] EXCEPT !.duration = durations[i]]]]

\* pricedOffer.priced_offer?.total_amount; 0 stands for an absent amount
PricedAmounts == {0, 1300}

\* the stop count without the guard for a missing or short segment list
FormatStopsUnguarded(fo) == Len(fo.segments) - 1

\* stops: flightOffer.segments?.length > 1 ? flightOffer.segments.length - 1 : 0
FormatStops(fo) ==
    IF fo.hasSegments /\ Len(fo.segments) > 1 THEN Len(fo.segments) - 1 ELSE 0

\* segments: flightOffer.segments?.map(...) || []
FormatSegments(fo) ==
    IF fo.hasSegments
    THEN [i \in 1..Len(fo.segments) |->
            [fo.segments[i] EXCEPT !.airlineName =
                IF fo.airlineName # "" THEN fo.airlineName
                ELSE IF @ # "" THEN @ ELSE "Unknown Airline"]]
    ELSE <<>>

\* a duration that is there: segment.duration && ..., flightOffer.duration && ...
HasText(d) == d.kind \notin {"undefined", "empty"}

\* segment.duration.match(/PT(\d+)H/): the number right after "PT", when an H follows it
DurationHours(d) ==
    IF d.parts # <<>> /\ d.parts[1].unit = "H" THEN d.parts[1].n ELSE 0

\* /PT(\d+)M/ in place of /(\d+)M/: minutes are read only when no hours come first
DurationMinutesAfterPT(d) ==
    IF d.parts # <<>> /\ d.parts[1].unit = "M" THEN d.parts[1].n ELSE 0

\* segment.duration.match(/(\d+)M/): the first number followed by an M
DurationMinutes(d) ==
    LET hits == {i \in 1..Len(d.parts) : d.parts[i].unit = "M"}
    IN  IF hits = {} THEN 0
        ELSE d.parts[CHOOSE i \in hits : \A j \in hits : i <= j].n

\* what one segment adds to the total of the reduce
SegmentMinutes(segment) ==
    IF HasText(segment.duration) /\ segment.duration.kind = "iso"
    THEN DurationHours(segment.duration) * 60 + DurationMinutes(segment.duration)
    ELSE 0

RECURSIVE TotalMinutes(_)
\* flightOffer.segments.reduce((total, segment) => ..., 0)
TotalMinutes(segments) ==
    IF segments = <<>> THEN 0
    ELSE SegmentMinutes(Head(segments)) + TotalMinutes(Tail(segments))

\* duration: flightOffer.duration unless it is missing or "0h 0m", else the
\* segments' total as "<hours>h <mins>m", else "0h 0m"
FormatDuration(fo) ==
    IF HasText(fo.duration) /\ fo.duration # HM(0, 0)
    THEN fo.duration
    ELSE IF fo.hasSegments /\ TotalMinutes(fo.segments) # 0
    THEN HM(TotalMinutes(fo.segments) \div 60, TotalMinutes(fo.segments) % 60)
    ELSE HM(0, 0)

\* totalPrice = pricedOffer.priced_offer?.total_amount || flightOffer.price || 0
TotalPrice(fo, po) == IF po.total_amount # 0 THEN po.total_amount ELSE fo.price

FormatFlight(fo, po) ==
    [kind     |-> "flight",
     id       |-> fo.id,
     duration |-> FormatDuration(fo),
     stops    |-> FormatStops(fo),
     price    |-> TotalPrice(fo, po),
     segments |-> FormatSegments(fo)]

\* EnhancedFlightCard: "n stop(s)" for more than one segment, else "Direct"
CardStops(flight) ==
    IF Len(flight.segments) > 1 THEN Len(flight.segments) - 1 ELSE 0

\* raw offers whose references all resolve, as one response can carry them
ResolvableRaw ==
    {[id |-> id, segRefs |-> refs, hasPrice |-> TRUE, price |-> p] :
        id \in {<<"OFFER1">>}, refs \in SeqsUpTo(DOMAIN SegmentList, MaxRefs),
        p \in Prices}

\* durations a segment can carry: none, "1h 15m", "PT1H15M", "PT45M", "PT2H",
\* "PT50M30S"
SegmentDurations ==
    {NoDuration, PlainText, Iso(<<Part(1, "H"), Part(15, "M")>>), Iso(<<Part(45, "M")>>),
     Iso(<<Part(2, "H")>>), Iso(<<Part(50, "M"), Part(30, "S")>>)}

\* totals an offer can carry: none, "", "0h 0m", "3h 5m"
SuppliedDurations == {NoDuration, EmptyText, HM(0, 0), HM(3, 5)}

\* the references of an offer of n segments, out and back in turn
AlternatingRefs(n) == [i \in 1..n |-> IF i % 2 = 1 THEN "SEG1" ELSE "SEG2"]

\* stored offers with durations on the offer and on its segments
TimedOfferSet ==
    UNION {{Timed(StoredOffer(NormalizeOffer([id |-> <<"OFFER1">>,
                                              segRefs |-> AlternatingRefs(n),
                                              hasPrice |-> TRUE, price |-> 1200],
                                             ReferenceIndex).offer, hs, ""),
                  total, durations) :
               total \in SuppliedDurations,
               durations \in [1..n -> SegmentDurations],
               hs \in IF n = 0 THEN BOOLEAN ELSE {TRUE}} :
           n \in 0..MaxRefs}

\* what the stored search response can hold for the selected flight: an
\* offer the engine produced, or an entry of an older store with no segments
StoredOfferSet ==
    {StoredOffer(NormalizeOffer(raw, ReferenceIndex).offer, hs, a) :
        raw \in ResolvableRaw, hs \in {TRUE}, a \in AirlineNames}
    \cup
    {StoredOffer([id |-> <<"OFFER1">>, segments |-> <<>>, stops |-> 0, price |-> p],
                 FALSE, a) : p \in Prices, a \in AirlineNames}
    \cup TimedOfferSet

DisplayInit ==
    /\ storedOffer \in StoredOfferSet
    /\ flightOffer = None
    /\ pricedOffer = None
    /\ formattedFlight = None
    /\ cardStops = 0

DisplayIdle ==
    /\ storedOffer = None
    /\ flightOffer = None
    /\ pricedOffer = None
    /\ formattedFlight = None
    /\ cardStops = 0

\* setFlightOffer(selectedOffer)
SetFlightOffer ==
    /\ flightOffer = None
    /\ flightOffer' = storedOffer
    /\ UNCHANGED <<storedOffer, pricedOffer, formattedFlight, cardStops>>

\* setPricedOffer(response.data), after the pricing call for the selected offer
SetPricedOffer ==
    /\ flightOffer # None
    /\ pricedOffer = None
    /\ \E amount \in PricedAmounts :
          pricedOffer' = [kind |-> "priced", total_amount |-> amount]
    /\ UNCHANGED <<storedOffer, flightOffer, formattedFlight, cardStops>>

\* if (flightOffer && pricedOffer) { const formattedFlight = ... }
Render ==
    /\ flightOffer # None
    /\ pricedOffer # None
    /\ formattedFlight = None
    /\ formattedFlight' = FormatFlight(flightOffer, pricedOffer)
    /\ cardStops' = CardStops(formattedFlight')
    /\ UNCHANGED <<storedOffer, flightOffer, pricedOffer>>


----------------------------------------------------------------------------
(* One transformation call: every raw offer of a response, in raw order *)

\* reference lists a raw offer may carry; SEG9 resolves to nothing
BatchRefSeqs ==
    {<<>>, <<"SEG1">>, <<"SEG1", "SEG2">>, <<DanglingRef>>, <<"SEG1", DanglingRef>>,
     <<DanglingRef, "SEG2">>, <<"SEG1", "SEG2", DanglingRef>>}

OfferIdAt(i) == <<"OFFER" \o ToString(i)>>

BatchRawOffers(i) ==
    {[id |-> OfferIdAt(i), segRefs |-> refs, hasPrice |-> hp, price |-> 1200] :
        refs \in BatchRefSeqs, hp \in BOOLEAN}

Batches ==
    UNION {{b \in [1..n -> UNION {BatchRawOffers(i) : i \in 1..n}] :
              \A i \in 1..n : b[i].id = OfferIdAt(i)} : n \in 0..MaxOffers}

BatchInit ==
    /\ rawOffers \in Batches
    /\ pos = 0
    /\ out = <<>>
    /\ dropped = 0
    /\ diagnostics = <<>>

BatchIdle ==
    /\ rawOffers = <<>>
    /\ pos = 0
    /\ out = <<>>
    /\ dropped = 0
    /\ diagnostics = <<>>

\* the offers one normalized offer contributes to the output
Emitted(offer) == IF enableRoundtripSplit THEN TripSplitter(offer) ELSE <<offer>>

\* the next raw offer normalizes: its canonical offer (or its two legs) is emitted
EmitOffer ==
    /\ pos < Len(rawOffers)
    /\ LET r == NormalizeOffer(rawOffers[pos + 1], ReferenceIndex)
       IN  /\ r.ok
           /\ out' = out \o Emitted(r.offer)
    /\ pos' = pos + 1
    /\ UNCHANGED <<rawOffers, dropped, diagnostics>>

\* the first failing offer ends the call: the rest of the response is not read
DropOfferAndAbort ==
    /\ pos < Len(rawOffers)
    /\ LET r == NormalizeOffer(rawOffers[pos + 1], ReferenceIndex)
       IN  /\ ~r.ok
           /\ diagnostics' = Append(diagnostics,
                                    [offerId |-> rawOffers[pos + 1].id, reason |-> r.reason])
    /\ dropped' = dropped + 1
    /\ pos' = Len(rawOffers)
    /\ UNCHANGED <<rawOffers, out>>

\* the next raw offer fails: it is skipped and logged, the call goes on
DropOffer ==
    /\ pos < Len(rawOffers)
    /\ LET r == NormalizeOffer(rawOffers[pos + 1], ReferenceIndex)
       IN  /\ ~r.ok
           /\ diagnostics' = Append(diagnostics,
                                    [offerId |-> rawOffers[pos + 1].id, reason |-> r.reason])
    /\ dropped' = dropped + 1
    /\ pos' = pos + 1
    /\ UNCHANGED <<rawOffers, out>>

----------------------------------------------------------------------------
(* The trip splitter on one canonical offer *)

Routes == {[dep |-> a, arr |-> b] : a, b \in Airports} \ {[dep |-> a, arr |-> a] : a \in Airports}

\* itineraries a traveller can fly: each segment departs where the last arrived
Itineraries ==
    {it \in SeqsUpTo(Routes, MaxSegs) :
        \A i \in 1..(Len(it) - 1) : it[i].arr = it[i + 1].dep}

\* canonical offers handed to the splitter, flagged round-trip by the search
\* request or not flagged
ParentOffers ==
    {[id |-> id, segments |-> it, stops |-> StopsOf(it), price |-> p,
      tripType |-> t, direction |-> Unsplit] :
        id \in OfferIds, it \in Itineraries, p \in Prices,
        t \in {Unsplit, "round-trip"}}

SplitInit ==
    /\ parent \in ParentOffers
    /\ legs = <<>>
    /\ resplit = <<>>
    /\ splitPc = "input"

SplitIdle ==
    /\ parent = None
    /\ legs = <<>>
    /\ resplit = <<>>
    /\ splitPc = "idle"

\* the splitter stage of the pipeline, when the caller opted in
Split ==
    /\ splitPc = "input"
    /\ enableRoundtripSplit
    /\ legs' = TripSplitter(parent)
    /\ splitPc' = "split"
    /\ UNCHANGED <<parent, enableRoundtripSplit, resplit>>

\* the stage is skipped without the opt-in flag
SkipSplit ==
    /\ splitPc = "input"
    /\ ~enableRoundtripSplit
    /\ legs' = <<parent>>
    /\ splitPc' = "split"
    /\ UNCHANGED <<parent, enableRoundtripSplit, resplit>>

\* the splitter applied once more to each offer it returned
SplitAgain ==
    /\ splitPc = "split"
    /\ enableRoundtripSplit
    /\ resplit' = [i \in 1..Len(legs) |-> TripSplitter(legs[i])]
    /\ splitPc' = "resplit"
    /\ UNCHANGED <<parent, enableRoundtripSplit, legs>>


----------------------------------------------------------------------------
(* 4.5 Penalty Aggregator *)

Range(action, lo, hi) ==
    [action |-> action, kind |-> "range", min |-> lo, max |-> hi, amount |-> 0]
Single(action, amount) ==
    [action |-> action, kind |-> "single", min |-> 0, max |-> 0, amount |-> amount]
\* a record with neither a single amount nor a min/max pair
Malformed(action) ==
    [action |-> action, kind |-> "malformed", min |-> 0, max |-> 0, amount |-> 0]

\* the penalty record one segment can reference
PenaltyCatalogue ==
    {Range("cancel", 100, 120), Range("cancel", 110, 200), Range("cancel", 100, 130),
     Range("cancel", 100, 100), Range("cancel", 90, 110), Single("cancel", 200),
     Range("change", 50, 300), Malformed("cancel")}

\* a single amount read as the ceiling only, the lower bound left at zero
RecordMinUnknown(r) == IF r.kind = "range" THEN r.min ELSE 0

\* MIN/MAX resolution: a single amount is the ceiling and the lower bound
RecordMin(r) == IF r.kind = "range" THEN r.min ELSE r.amount
RecordMax(r) == IF r.kind = "range" THEN r.max ELSE r.amount

NoFee == [present |-> FALSE, min |-> 0, max |-> 0]

\* the running range overwritten by the latest record
WidenToLatest(acc, r) ==
    [present |-> TRUE, min |-> RecordMin(r), max |-> RecordMax(r)]

\* one more record taken into a running range
Widen(acc, r) ==
    IF acc.present
    THEN [present |-> TRUE, min |-> Min2(acc.min, RecordMin(r)),
          max |-> Max2(acc.max, RecordMax(r))]
    ELSE [present |-> TRUE, min |-> RecordMin(r), max |-> RecordMax(r)]

RECURSIVE FoldPenalties(_, _, _)
\* the records of one action, in segment order; malformed records are left out
FoldPenalties(records, action, acc) ==
    IF records = <<>>
    THEN acc
    ELSE LET r == Head(records)
         IN  FoldPenalties(Tail(records), action,
                           IF r.action = action /\ r.kind # "malformed"
                           THEN Widen(acc, r) ELSE acc)

\* the OD legs of an itinerary, as index ranges over its segments
ODLegs(segments) ==
    LET b == SplitPoint(segments)
        n == Len(segments)
    IN  IF b = 0
        THEN <<[from |-> 1, to |-> n]>>
        ELSE <<[from |-> 1, to |-> b], [from |-> b + 1, to |-> n]>>

\* every record of the itinerary, whichever leg is aggregated
LegRecordsOfItinerary(records, leg) == records

\* the records the aggregation of one leg reads
LegRecords(records, leg) == SubSeq(records, leg.from, leg.to)

AggregateLeg(records, leg) ==
    [cancel |-> FoldPenalties(LegRecords(records, leg), "cancel", NoFee),
     change |-> FoldPenalties(LegRecords(records, leg), "change", NoFee)]

AggregatePenalties(segments, records) ==
    LET ods == ODLegs(segments)
    IN  [l \in 1..Len(ods) |-> AggregateLeg(records, ods[l])]

PenaltyItineraries == {it \in Itineraries : Len(it) >= 1 /\ it[1].dep = "A"}

PenaltyInit ==
    /\ itinerary \in PenaltyItineraries
    /\ penalties \in [1..Len(itinerary) -> PenaltyCatalogue]
    /\ fareRules = <<>>
    /\ penaltyPc = "input"

PenaltyIdle ==
    /\ itinerary = <<>>
    /\ penalties = <<>>
    /\ fareRules = <<>>
    /\ penaltyPc = "idle"

Aggregate ==
    /\ penaltyPc = "input"
    /\ fareRules' = AggregatePenalties(itinerary, penalties)
    /\ penaltyPc' = "done"
    /\ UNCHANGED <<itinerary, penalties>>

----------------------------------------------------------------------------
(* 4.5 Classification of a penalty record *)

\* largest applicability code a record is tried with; the API defines 1..4
MaxCode == 5

PenaltyActions == {"cancel", "change", "no-show-cancel", "no-show-change"}

\* codes 1 and 3 exchanged
ApplicabilityWindowSwapped(code) ==
    CASE code = 1 -> "after departure"
      [] code = 2 -> "prior to departure"
      [] code = 3 -> "after departure, no-show"
      [] code = 4 -> "before departure, no-show"
      [] OTHER    -> "unknown"

\* the fixed four-way meaning of the applicability code
ApplicabilityWindow(code) ==
    CASE code = 1 -> "after departure, no-show"
      [] code = 2 -> "prior to departure"
      [] code = 3 -> "after departure"
      [] code = 4 -> "before departure, no-show"
      [] OTHER    -> "unknown"

\* the FareRules key a record feeds: code 2 against codes 1, 3 and 4
RulesKey(action, code) ==
    LET verb == IF action \in {"cancel", "no-show-cancel"} THEN "cancel" ELSE "change"
    IN  CASE code = 2          -> verb \o "BeforeDeparture"
          [] code \in {1, 3, 4} -> verb \o "AfterDeparture"
          [] OTHER             -> "none"

Classify(r) ==
    [kind   |-> "classified",
     action |-> r.action,
     window |-> ApplicabilityWindow(r.code),
     key    |-> RulesKey(r.action, r.code)]

ClassifiableRecords ==
    {[action |-> a, code |-> c, fee |-> f] :
        a \in PenaltyActions, c \in 0..MaxCode,
        f \in {Range("cancel", 100, 120), Single("cancel", 200), Malformed("cancel")}}

ClassInit ==
    /\ penaltyRecord \in ClassifiableRecords
    /\ classified = None

ClassIdle ==
    /\ penaltyRecord = None
    /\ classified = None

ClassifyRecord ==
    /\ classified = None
    /\ classified' = Classify(penaltyRecord)
    /\ UNCHANGED penaltyRecord

----------------------------------------------------------------------------
(* Flight-details page: fetchFlightPrice *)

\* most `data` objects nested inside one another in a stored response
MaxDepth == 4

\* the value of a key the object does not have
Undefined == "undefined"

\* if (value): neither undefined nor the empty string
Truthy(v) == v # Undefined /\ v # ""

\* the identifier a response carries `d` levels down, when it carries one there
SridOfLevel(d) == "SR" \o ToString(d)

\* a stored response: levels[d + 1] is the object reached through d `data`
\* keys; the offers array, when there is one, sits offersDepth levels down
Documents(offerLists) ==
    {[levels |-> lv, offersDepth |-> od, offers |-> ol] :
        lv \in UNION {{f \in [1..n -> {Undefined, ""} \cup {SridOfLevel(d) : d \in 0..MaxDepth}] :
                          \A k \in 1..n : f[k] \in {Undefined, "", SridOfLevel(k - 1)}} :
                      n \in 1..(MaxDepth + 1)},
        od \in -1..2, ol \in offerLists}

\* airShoppingResponseData.data?. ... ?.shopping_response_id, d times `data`
ShoppingResponseIdAt(doc, d) ==
    IF d < Len(doc.levels) THEN doc.levels[d + 1] ELSE Undefined

\* the nesting depths the lookup tries, in the order it tries them
CandidatePaths == <<3, 2, 1, 0>>

\* the shallowest level tried first
FindShoppingResponseIdShallowestFirst(doc) ==
    LET hits == {k \in 1..Len(CandidatePaths) :
                    Truthy(ShoppingResponseIdAt(doc, CandidatePaths[k]))}
    IN  IF hits = {}
        THEN [found |-> FALSE, id |-> Undefined, level |-> -1]
        ELSE LET k == CHOOSE k \in hits : \A j \in hits : k >= j
             IN  [found |-> TRUE, id |-> ShoppingResponseIdAt(doc, CandidatePaths[k]),
                  level |-> CandidatePaths[k]]

\* if / else if chain over data.data.data, data.data, data and the root
FindShoppingResponseId(doc) ==
    LET hits == {k \in 1..Len(CandidatePaths) :
                    Truthy(ShoppingResponseIdAt(doc, CandidatePaths[k]))}
    IN  IF hits = {}
        THEN [found |-> FALSE, id |-> Undefined, level |-> -1]
        ELSE LET k == CHOOSE k \in hits : \A j \in hits : k <= j
             IN  [found |-> TRUE, id |-> ShoppingResponseIdAt(doc, CandidatePaths[k]),
                  level |-> CandidatePaths[k]]

\* the offers key of the object d levels down
OffersAt(doc, d) ==
    IF d < Len(doc.levels) /\ doc.offersDepth = d
    THEN [defined |-> TRUE, list |-> doc.offers]
    ELSE [defined |-> FALSE, list |-> <<>>]

\* data.data.offers, else data.offers, else a root offers array
FindOffers(doc) ==
    IF OffersAt(doc, 2).defined THEN OffersAt(doc, 2)
    ELSE IF OffersAt(doc, 1).defined THEN OffersAt(doc, 1)
    ELSE OffersAt(doc, 0)

\* offers.findIndex(test), counted from 1: the least of hits, the indexes of
\* the offers that pass the test; 0 when none does
FindIndex(hits) ==
    IF hits = {} THEN 0 ELSE CHOOSE i \in hits : \A j \in hits : i <= j

\* id.includes(part)
Includes(id, part) == \E i \in 1..Len(id) : id[i] = part

\* the two arguments of replace exchanged
ReplaceSwapped(id, from, to) ==
    LET hits == {i \in 1..Len(id) : id[i] = to}
    IN  IF hits = {} THEN id
        ELSE LET k == CHOOSE i \in hits : \A j \in hits : i <= j
             IN  [id EXCEPT ![k] = from]

\* id.replace(from, to): the first occurrence only
Replace(id, from, to) ==
    LET hits == {i \in 1..Len(id) : id[i] = from}
    IN  IF hits = {} THEN id
        ELSE LET k == CHOOSE i \in hits : \A j \in hits : i <= j
             IN  [id EXCEPT ![k] = to]

\* offer.segments?.some(seg => seg.direction === 'return')
SomeSegmentReturns(offer) ==
    \E i \in 1..Len(offer.segments) :
        /\ "direction" \in DOMAIN offer.segments[i]
        /\ offer.segments[i].direction = "return"

\* the return offer of a round trip: by the outbound id with its suffix
\* replaced, else the first other offer marked as a return, else offers[1]
FindReturnOffer(offers, id, trip) ==
    IF trip = "round-trip" /\ Len(offers) > 1
    THEN LET returnFlightId == Replace(id, "-outbound", "-return")
             byId == IF Includes(id, "-outbound")
                     THEN FindIndex({i \in 1..Len(offers) : offers[i].id = returnFlightId})
                     ELSE 0
             byDirection ==
                 FindIndex({i \in 1..Len(offers) :
                               /\ offers[i].id # id
                               /\ \/ offers[i].direction = "return"
                                  \/ SomeSegmentReturns(offers[i])
                                  \/ Includes(offers[i].id, "-return")})
         IN  IF byId # 0 THEN offers[byId]
             ELSE IF byDirection # 0 THEN offers[byDirection]
             ELSE offers[2]
    ELSE None

\* a round trip A-B, B-A as the engine normalizes it
RoundTripOffer(id) ==
    [id |-> id,
     segments |-> <<[dep |-> "A", arr |-> "B"], [dep |-> "B", arr |-> "A"]>>,
     stops |-> 1, price |-> 1200, tripType |-> Unsplit, direction |-> Unsplit]

\* an offer of an older response: its only mark of a return is on its segment
LegacyReturnOffer(id) ==
    [id |-> id,
     segments |-> <<[dep |-> "B", arr |-> "A", direction |-> "return"]>>,
     stops |-> 0, price |-> 1200, tripType |-> Unsplit, direction |-> Unsplit]

\* offers arrays a stored response can hold
FetchOfferLists ==
    {<<>>,
     <<RoundTripOffer(<<"OFFER1">>)>>,
     <<RoundTripOffer(<<"OFFER1">>), RoundTripOffer(<<"OFFER2">>)>>,
     <<RoundTripOffer(<<"OFFER1">>), LegacyReturnOffer(<<"OFFER2">>)>>,
     TripSplitter(RoundTripOffer(<<"OFFER1">>)),
     TripSplitter(RoundTripOffer(<<"OFFER1">>)) \o TripSplitter(RoundTripOffer(<<"OFFER2">>))}

FlightIds ==
    {<<"OFFER1">>, <<"OFFER1", "-outbound">>, <<"OFFER2", "-outbound">>,
     <<"OFFER1", "-return">>, <<"OFFER2">>, <<"OFFER3">>}

FetchInit ==
    /\ airShoppingResponseData \in Documents(FetchOfferLists)
    /\ flightId \in FlightIds
    /\ tripType \in {"one-way", "round-trip"}
    /\ returnFlightOffer = None
    /\ shoppingResponseId = Undefined
    /\ airShoppingRsData = -1
    /\ pricingRequests = <<>>
    /\ error = ""
    /\ isLoading = TRUE
    /\ fetchPc = "start"
    /\ storedOffer = None
    /\ flightOffer = None
    /\ pricedOffer = None
    /\ formattedFlight = None
    /\ cardStops = 0

FetchIdle ==
    /\ airShoppingResponseData = None
    /\ flightId = <<>>
    /\ tripType = "one-way"
    /\ returnFlightOffer = None
    /\ shoppingResponseId = Undefined
    /\ airShoppingRsData = -1
    /\ pricingRequests = <<>>
    /\ error = ""
    /\ isLoading = TRUE
    /\ fetchPc = "idle"

\* throw new Error(message), caught by the catch and finally of fetchFlightPrice
FetchThrows(message) ==
    /\ error' = message
    /\ isLoading' = FALSE
    /\ fetchPc' = "done"

\* fetchFlightPrice up to its await: the offers array, the selected offer,
\* the return offer, the shopping_response_id and the pricing request
FetchFlightPrice ==
    /\ fetchPc = "start"
    /\ LET offers   == FindOffers(airShoppingResponseData)
           selected == FindIndex({i \in 1..Len(offers.list) : offers.list[i].id = flightId})
           srid     == FindShoppingResponseId(airShoppingResponseData)
       IN  IF ~offers.defined
           THEN /\ FetchThrows("airShoppingResponseData.data.offers is undefined")
                /\ UNCHANGED <<flightOffer, returnFlightOffer, shoppingResponseId,
                               airShoppingRsData, pricingRequests>>
           ELSE IF selected = 0
           THEN /\ FetchThrows("Selected flight offer not found")
                /\ UNCHANGED <<flightOffer, returnFlightOffer, shoppingResponseId,
                               airShoppingRsData, pricingRequests>>
           ELSE /\ flightOffer' = offers.list[selected]
                /\ returnFlightOffer' = FindReturnOffer(offers.list, flightId, tripType)
                /\ shoppingResponseId' = srid.id
                /\ airShoppingRsData' = srid.level
                /\ IF ~srid.found
                   THEN /\ FetchThrows("Shopping response ID not found")
                        /\ UNCHANGED pricingRequests
                   ELSE /\ pricingRequests' =
                              Append(pricingRequests,
                                     [offerId |-> offers.list[selected].id,
                                      shoppingResponseId |-> srid.id,
                                      airShoppingRsData |-> srid.level])
                        /\ fetchPc' = "awaiting"
                        /\ UNCHANGED <<error, isLoading>>
    /\ UNCHANGED <<airShoppingResponseData, flightId, tripType>>
    /\ UNCHANGED <<storedOffer, pricedOffer, formattedFlight, cardStops>>

\* the pricing call resolves: setPricedOffer(response.data)
PriceResolved ==
    /\ fetchPc = "awaiting"
    /\ \E amount \in PricedAmounts :
          pricedOffer' = [kind |-> "priced", total_amount |-> amount]
    /\ isLoading' = FALSE
    /\ fetchPc' = "done"
    /\ UNCHANGED <<airShoppingResponseData, flightId, tripType, returnFlightOffer,
                   shoppingResponseId, airShoppingRsData, pricingRequests, error>>
    /\ UNCHANGED <<storedOffer, flightOffer, formattedFlight, cardStops>>

\* the pricing call rejects: the catch sets the error
PriceRejected ==
    /\ fetchPc = "awaiting"
    /\ error' = "Failed to fetch flight price data"
    /\ isLoading' = FALSE
    /\ fetchPc' = "done"
    /\ UNCHANGED <<airShoppingResponseData, flightId, tripType, returnFlightOffer,
                   shoppingResponseId, airShoppingRsData, pricingRequests>>
    /\ UNCHANGED displayVars

----------------------------------------------------------------------------
(* Stored search data: localStorage, the URL parameter and the clock *)

\* 24 * 60 * 60 * 1000 ms, in hours: the clock of the model counts hours
ExpiryHours == 24

\* the clock advances TickHours at a time and stops at MaxTime
TickHours == 12
MaxTime == 36

\* items of localStorage and of the URL: no item, text that JSON.parse
\* rejects, a key name, a JSON value
Absent == [kind |-> "absent"]
Corrupt == [kind |-> "corrupt"]
KeyName(key) == [kind |-> "text", text |-> key]
Json(value) == [kind |-> "json", value |-> value]

FlightDataKeys == {"flightData_1", "flightData_2"}
StorageKeys == {"currentFlightDataKey", "airShoppingResponse"} \cup FlightDataKeys

\* a response whose shopping_response_id sits d levels down and whose offers
\* array is at the root
SourceDoc(d) ==
    [levels |-> [k \in 1..(d + 1) |-> IF k = d + 1 THEN SridOfLevel(d) ELSE Undefined],
     offersDepth |-> 0,
     offers |-> <<RoundTripOffer(<<"OFFER1">>)>>]

\* the object FlightsPage stores: the response and its expiry; an expiresAt
\* of 0 stands for a missing one (both are falsy)
FlightData(response, expiresAt) ==
    Json([airShoppingResponse |-> response, expiresAt |-> expiresAt])

\* localStorage.setItem(key, item), localStorage.removeItem(key)
SetItem(storage, key, item) == [storage EXCEPT ![key] = item]
RemoveItem(storage, key) == [storage EXCEPT ![key] = Absent]

\* data.expiresAt && data.expiresAt >= Date.now(): an entry expiring at this
\* very hour still counts
NotExpiredInclusive(data, time) == data.expiresAt # 0 /\ data.expiresAt >= time

\* data.expiresAt && data.expiresAt > Date.now()
NotExpired(data, time) == data.expiresAt # 0 /\ data.expiresAt > time

\* what a retrieval strategy leaves behind: the data it found (None when it
\* found none), the storage, and whether JSON.parse threw outside a try
Found(data, storage) == [data |-> data, storage |-> storage, threw |-> FALSE]
Threw(storage) == [data |-> None, storage |-> storage, threw |-> TRUE]

\* Strategy 1: the entry named by currentFlightDataKey
Strategy1(storage, time) ==
    LET pointer == storage["currentFlightDataKey"]
        item    == storage[pointer.text]
    IN  IF pointer.kind # "text" THEN Found(None, storage)
        ELSE IF item.kind # "json" THEN Found(None, storage)
        ELSE IF NotExpired(item.value, time)
        THEN Found(item.value.airShoppingResponse, storage)
        ELSE Found(None, RemoveItem(RemoveItem(storage, pointer.text),
                                    "currentFlightDataKey"))

\* Strategy 2: the airShoppingResponse URL parameter
Strategy2(param, storage) ==
    IF param.kind = "absent" THEN Found(None, storage)
    ELSE IF param.kind = "corrupt" THEN Threw(storage)
    ELSE Found(param.value, storage)

\* Strategy 3: the legacy airShoppingResponse item
Strategy3(storage) ==
    LET legacy == storage["airShoppingResponse"]
    IN  IF legacy.kind = "absent" THEN Found(None, storage)
        ELSE IF legacy.kind = "corrupt" THEN Threw(storage)
        ELSE Found(legacy.value, storage)

RECURSIVE ScanFlightData(_, _, _)
\* Strategy 4: the flightData_ keys in the order Object.keys lists them; a
\* corrupted entry met on the way is removed
ScanFlightData(keys, storage, time) ==
    IF keys = <<>> THEN Found(None, storage)
    ELSE LET item == storage[Head(keys)]
         IN  IF item.kind = "absent" THEN ScanFlightData(Tail(keys), storage, time)
             ELSE IF item.kind # "json"
             THEN ScanFlightData(Tail(keys), RemoveItem(storage, Head(keys)), time)
             ELSE IF item.value.airShoppingResponse # None /\ NotExpired(item.value, time)
             THEN Found(item.value.airShoppingResponse, storage)
             ELSE ScanFlightData(Tail(keys), storage, time)

\* the outcome of the strategy that ended the retrieval, with the name
\* flightDataSource has by then
From(outcome, source) ==
    [data |-> outcome.data, storage |-> outcome.storage, threw |-> outcome.threw,
     source |-> IF outcome.data # None THEN source ELSE "unknown"]

\* the four strategies in the order fetchFlightPrice tries them, each only
\* when the ones before found nothing
Retrieve(storage, param, time, keys) ==
    LET first  == Strategy1(storage, time)
        second == Strategy2(param, first.storage)
        third  == Strategy3(second.storage)
        fourth == ScanFlightData(keys, third.storage, time)
    IN  IF first.data # None THEN From(first, "localStorage-new")
        ELSE IF second.threw \/ second.data # None
        THEN From(second, "url-params")
        ELSE IF third.threw \/ third.data # None
        THEN From(third, "localStorage-legacy")
        ELSE IF fourth.data # None THEN From(fourth, "localStorage-search")
        ELSE From(fourth, "unknown")

\* the orders in which Object.keys(localStorage) may list the flightData_ keys
KeyOrders == {<<"flightData_1", "flightData_2">>, <<"flightData_2", "flightData_1">>}

\* the stored states of a browser that has used the site before: the pointer,
\* the legacy item and the two flightData_ entries, each possibly corrupted,
\* without a response, without an expiry, or about to expire
EntryDoc(key) == IF key = "flightData_1" THEN SourceDoc(0) ELSE SourceDoc(1)
UrlDoc == SourceDoc(2)
LegacyDoc == SourceDoc(3)

StoredEntries(key) ==
    {Absent, Corrupt}
        \cup {FlightData(response, expiresAt) :
                  response \in {None, EntryDoc(key)},
                  expiresAt \in {0, TickHours, ExpiryHours}}

StorageStates ==
    {[key \in StorageKeys |->
         IF key = "currentFlightDataKey" THEN pointer
         ELSE IF key = "airShoppingResponse" THEN legacy
         ELSE IF key = "flightData_1" THEN one ELSE two] :
        pointer \in {Absent} \cup {KeyName(key) : key \in FlightDataKeys},
        legacy \in {Absent, Corrupt, Json(LegacyDoc)},
        one \in StoredEntries("flightData_1"),
        two \in StoredEntries("flightData_2")}

StorageInit ==
    /\ localStorage \in StorageStates
    /\ searchParams \in {Absent, Corrupt, Json(UrlDoc)}
    /\ now = 0
    /\ flightDataSource = "unknown"

StorageIdle ==
    /\ localStorage = [key \in StorageKeys |-> Absent]
    /\ searchParams = Absent
    /\ now = 0
    /\ flightDataSource = "unknown"

\* the flight-details page opened on a flight of a stored search
RetrieveInit ==
    /\ StorageInit
    /\ airShoppingResponseData = None
    /\ flightId = <<"OFFER1">>
    /\ tripType = "one-way"
    /\ returnFlightOffer = None
    /\ shoppingResponseId = Undefined
    /\ airShoppingRsData = -1
    /\ pricingRequests = <<>>
    /\ error = ""
    /\ isLoading = TRUE
    /\ fetchPc = "retrieve"
    /\ storedOffer = None
    /\ flightOffer = None
    /\ pricedOffer = None
    /\ formattedFlight = None
    /\ cardStops = 0

\* the clock
Tick ==
    /\ now + TickHours <= MaxTime
    /\ now' = now + TickHours
    /\ UNCHANGED <<localStorage, searchParams, flightDataSource>>

\* Clean up old flight data: expired and corrupted flightData_ entries
CleanUp(storage, time) ==
    [key \in StorageKeys |->
        IF /\ key \in FlightDataKeys
           /\ \/ storage[key].kind = "corrupt"
              \/ /\ storage[key].kind = "json"
                 /\ storage[key].value.expiresAt # 0
                 /\ storage[key].value.expiresAt < time
        THEN Absent
        ELSE storage[key]]

\* FlightsPage storing the response of a search under a key of its own
StoreFlightData(storageKey) ==
    /\ localStorage[storageKey] = Absent
    /\ localStorage' =
           CleanUp(SetItem(SetItem(localStorage, storageKey,
                                   FlightData(EntryDoc(storageKey), now + ExpiryHours)),
                           "currentFlightDataKey", KeyName(storageKey)),
                   now)
    /\ UNCHANGED <<searchParams, now, flightDataSource>>

\* fetchFlightPrice from its start to the data it works on
RetrieveFlightData ==
    /\ fetchPc = "retrieve"
    /\ \E keys \in KeyOrders :
          LET outcome == Retrieve(localStorage, searchParams, now, keys)
          IN  /\ localStorage' = outcome.storage
              /\ flightDataSource' = outcome.source
              /\ IF outcome.threw
                 THEN /\ FetchThrows("Unexpected token in JSON")
                      /\ UNCHANGED airShoppingResponseData
                 ELSE IF outcome.data = None
                 THEN /\ FetchThrows("No flight search data found")
                      /\ UNCHANGED airShoppingResponseData
                 ELSE /\ airShoppingResponseData' = outcome.data
                      /\ error' = ""
                      /\ isLoading' = TRUE
                      /\ fetchPc' = "start"
    /\ UNCHANGED <<searchParams, now>>
    /\ UNCHANGED <<flightId, tripType, returnFlightOffer, shoppingResponseId,
                   airShoppingRsData, pricingRequests>>
    /\ UNCHANGED displayVars

----------------------------------------------------------------------------
(* The flight-details page: the effect running again *)

\* pricing requests the effect may send before the model stops it
MaxRequests == 3

\* a stored search of two offers
TwoOffersDoc ==
    [levels |-> <<SridOfLevel(0)>>,
     offersDepth |-> 0,
     offers |-> <<RoundTripOffer(<<"OFFER1">>), RoundTripOffer(<<"OFFER2">>)>>]

\* the page opened from the results of that search
RefetchInit ==
    /\ localStorage = [key \in StorageKeys |->
                          IF key = "currentFlightDataKey" THEN KeyName("flightData_1")
                          ELSE IF key = "flightData_1"
                          THEN FlightData(TwoOffersDoc, ExpiryHours)
                          ELSE Absent]
    /\ searchParams = Absent
    /\ now = 0
    /\ flightDataSource = "unknown"
    /\ airShoppingResponseData = None
    /\ flightId \in {<<"OFFER1">>, <<"OFFER2">>}
    /\ tripType = "one-way"
    /\ returnFlightOffer = None
    /\ shoppingResponseId = Undefined
    /\ airShoppingRsData = -1
    /\ pricingRequests = <<>>
    /\ error = ""
    /\ isLoading = TRUE
    /\ fetchPc = "retrieve"
    /\ storedOffer = None
    /\ flightOffer = None
    /\ pricedOffer = None
    /\ formattedFlight = None
    /\ cardStops = 0
    /\ answered = {}
    /\ pricedRequest = 0

RefetchIdle ==
    /\ answered = {}
    /\ pricedRequest = 0

\* the pricing requests that have no response yet
Pending == (1..Len(pricingRequests)) \ answered

\* useEffect(..., [flightId, searchParams]): the flight or the search
\* parameters change and the effect calls fetchFlightPrice again; nothing
\* cancels the request of the run before
DepsChange(newFlightId) ==
    /\ fetchPc \in {"awaiting", "done"}
    /\ Len(pricingRequests) < MaxRequests
    /\ flightId' = newFlightId
    /\ fetchPc' = "retrieve"
    /\ UNCHANGED <<airShoppingResponseData, tripType, returnFlightOffer, shoppingResponseId,
                   airShoppingRsData, pricingRequests, error, isLoading>>
    /\ UNCHANGED <<displayVars, storageVars, answered, pricedRequest>>

\* the request is the one the latest run of the effect is waiting for
IsCurrent(request) == request = Len(pricingRequests) /\ fetchPc = "awaiting"

\* api.getFlightPrice of a request resolves: setPricedOffer(response.data),
\* then the finally
ResponseResolved(request) ==
    /\ request \in Pending
    /\ answered' = answered \cup {request}
    /\ \E amount \in PricedAmounts :
          pricedOffer' = [kind |-> "priced", total_amount |-> amount]
    /\ pricedRequest' = request
    /\ isLoading' = FALSE
    /\ fetchPc' = IF IsCurrent(request) THEN "done" ELSE fetchPc
    /\ UNCHANGED <<airShoppingResponseData, flightId, tripType, returnFlightOffer,
                   shoppingResponseId, airShoppingRsData, pricingRequests, error>>
    /\ UNCHANGED <<storedOffer, flightOffer, formattedFlight, cardStops>>
    /\ UNCHANGED storageVars

\* api.getFlightPrice of a request rejects: the catch, then the finally
ResponseRejected(request) ==
    /\ request \in Pending
    /\ answered' = answered \cup {request}
    /\ error' = "Failed to fetch flight price data"
    /\ isLoading' = FALSE
    /\ fetchPc' = IF IsCurrent(request) THEN "done" ELSE fetchPc
    /\ UNCHANGED <<airShoppingResponseData, flightId, tripType, returnFlightOffer,
                   shoppingResponseId, airShoppingRsData, pricingRequests>>
    /\ UNCHANGED <<displayVars, storageVars, pricedRequest>>

----------------------------------------------------------------------------
(* 4.3 step 6: the identifier of a canonical offer *)

\* an identifier field the raw offer does not carry
NoId == <<>>

\* the identifier the UUID generator hands out next: one it has not handed
\* out before
FreshUuid(issued) == <<"uuid-" \o ToString(Cardinality(issued) + 1)>>

\* OfferID when the raw offer has one, else its OfferItemID, else the
\* UUID-based fallback
OfferIdentifier(raw, uuid) ==
    IF raw.offerId # NoId THEN raw.offerId
    ELSE IF raw.offerItemId # NoId THEN raw.offerItemId
    ELSE uuid

\* raw offers with and without identifier fields
IdentRawOffers ==
    {[offerId |-> oid, offerItemId |-> iid, segRefs |-> refs, hasPrice |-> TRUE,
      price |-> p] :
        oid \in {NoId, <<"OFFER1">>, <<"OFFER2">>},
        iid \in {NoId, <<"ITEM1">>, <<"ITEM2">>},
        refs \in {<<"SEG1">>, <<"SEG1", "SEG2">>, <<"SEG1", "SEG2", "SEG1">>},
        p \in Prices}

\* the raw offer with its identifier extracted, as the normalizer reads it
Identified(raw, uuid) ==
    [id |-> OfferIdentifier(raw, uuid), segRefs |-> raw.segRefs,
     hasPrice |-> raw.hasPrice, price |-> raw.price]

IdentInit ==
    /\ identRaw \in IdentRawOffers
    /\ firstOffer = None
    /\ secondOffer = None
    /\ uuidsIssued = {}
    /\ identPc = "input"

IdentIdle ==
    /\ identRaw = None
    /\ firstOffer = None
    /\ secondOffer = None
    /\ uuidsIssued = {}
    /\ identPc = "idle"

\* the raw offer is normalized
NormalizeFirst ==
    /\ identPc = "input"
    /\ LET uuid == FreshUuid(uuidsIssued)
       IN  /\ firstOffer' = NormalizeOffer(Identified(identRaw, uuid), ReferenceIndex).offer
           /\ uuidsIssued' = IF OfferIdentifier(identRaw, uuid) = uuid
                             THEN uuidsIssued \cup {uuid} ELSE uuidsIssued
    /\ identPc' = "once"
    /\ UNCHANGED <<identRaw, secondOffer>>

\* the same raw offer is normalized again, later in the shopping session
NormalizeSecond ==
    /\ identPc = "once"
    /\ LET uuid == FreshUuid(uuidsIssued)
       IN  /\ secondOffer' = NormalizeOffer(Identified(identRaw, uuid), ReferenceIndex).offer
           /\ uuidsIssued' = IF OfferIdentifier(identRaw, uuid) = uuid
                             THEN uuidsIssued \cup {uuid} ELSE uuidsIssued
    /\ identPc' = "twice"
    /\ UNCHANGED <<identRaw, firstOffer>>

----------------------------------------------------------------------------
(* 5: one worker per offer over a bounded pool *)

Workers == {"w1", "w2"}

SetOf(seq) == {seq[i] : i \in 1..Len(seq)}

\* what normalizing one raw offer contributes: its canonical offer or its
\* two legs, or a drop; `issued` grows when the UUID fallback was used
NormalizeOne(raw, issued) ==
    LET uuid == FreshUuid(issued)
        r    == NormalizeOffer(Identified(raw, uuid), ReferenceIndex)
    IN  [offers  |-> IF r.ok THEN Emitted(r.offer) ELSE <<>>,
         dropped |-> IF r.ok THEN 0 ELSE 1,
         issued  |-> IF OfferIdentifier(raw, uuid) = uuid
                     THEN issued \cup {uuid} ELSE issued]

RECURSIVE SequentialRun(_, _)
\* the engine as it is: the offers normalized one after another, in raw order
SequentialRun(raws, acc) ==
    IF raws = <<>>
    THEN acc
    ELSE LET one == NormalizeOne(Head(raws), acc.issued)
         IN  SequentialRun(Tail(raws),
                           [out     |-> acc.out \o one.offers,
                            dropped |-> acc.dropped + one.dropped,
                            issued  |-> one.issued])

\* the raw offer at position i: with or without an OfferID, resolvable or not
WorkerRawOffers(i) ==
    {[offerId |-> oid, offerItemId |-> NoId, segRefs |-> refs, hasPrice |-> TRUE,
      price |-> 1200] :
        oid \in {OfferIdAt(i), NoId}, refs \in {<<"SEG1">>, <<"SEG1", "SEG2">>}}
    \cup
    {[offerId |-> OfferIdAt(i), offerItemId |-> NoId, segRefs |-> <<DanglingRef>>,
      hasPrice |-> TRUE, price |-> 1200]}

WorkerBatches ==
    UNION {{b \in [1..n -> UNION {WorkerRawOffers(i) : i \in 1..n}] :
              \A i \in 1..n : b[i] \in WorkerRawOffers(i)} : n \in 0..MaxOffers}

WorkersInit ==
    /\ workBatch \in WorkerBatches
    /\ sequential = None
    /\ holding = [w \in Workers |-> 0]
    /\ results = <<>>
    /\ generatorIssued = {}
    /\ gathered = None
    /\ workPc = "input"

WorkersIdle ==
    /\ workBatch = <<>>
    /\ sequential = None
    /\ holding = [w \in Workers |-> 0]
    /\ results = <<>>
    /\ generatorIssued = {}
    /\ gathered = None
    /\ workPc = "idle"

\* the response is transformed by the single-threaded engine
RunSequentially ==
    /\ workPc = "input"
    /\ LET run == SequentialRun(workBatch, [out |-> <<>>, dropped |-> 0, issued |-> {}])
       IN  /\ sequential' = [kind |-> "run", out |-> run.out, dropped |-> run.dropped]
           /\ generatorIssued' = run.issued
    /\ results' = [i \in 1..Len(workBatch) |-> None]
    /\ workPc' = "workers"
    /\ UNCHANGED <<workBatch, holding, gathered>>

\* a free worker takes an offer nobody has taken
WorkerTakes(w, i) ==
    /\ workPc = "workers"
    /\ holding[w] = 0
    /\ results[i] = None
    /\ \A v \in Workers : holding[v] # i
    /\ holding' = [holding EXCEPT ![w] = i]
    /\ UNCHANGED <<workBatch, sequential, results, generatorIssued, gathered, workPc>>

\* a worker normalizes the offer it holds and hands back the result
WorkerFinishes(w) ==
    /\ workPc = "workers"
    /\ holding[w] # 0
    /\ LET one == NormalizeOne(workBatch[holding[w]], generatorIssued)
       IN  /\ results' = [results EXCEPT ![holding[w]] =
                             [kind |-> "result", offers |-> one.offers, dropped |-> one.dropped]]
           /\ generatorIssued' = one.issued
    /\ holding' = [holding EXCEPT ![w] = 0]
    /\ UNCHANGED <<workBatch, sequential, gathered, workPc>>

RECURSIVE SumDropped(_)
SumDropped(rs) == IF rs = <<>> THEN 0 ELSE Head(rs).dropped + SumDropped(Tail(rs))

\* every offer has a result: the caller collects them, unordered
Gather ==
    /\ workPc = "workers"
    /\ \A i \in 1..Len(results) : results[i] # None
    /\ gathered' = [kind |-> "gathered",
                    offers  |-> UNION {SetOf(results[i].offers) : i \in 1..Len(results)},
                    dropped |-> SumDropped(results)]
    /\ workPc' = "done"
    /\ UNCHANGED <<workBatch, sequential, holding, results, generatorIssued>>

----------------------------------------------------------------------------
(* BookingForm: validation *)

\* An object is a function from the keys it has to their values; a key it
\* does not have reads as Undefined.
Get(object, key) == IF key \in DOMAIN object THEN object[key] ELSE Undefined

\* { ...object, [key]: value }
With(object, key, value) ==
    [k \in DOMAIN object \cup {key} |-> IF k = key THEN value ELSE object[k]]

EmptyObject == [k \in {} |-> ""]

\* the passenger handed to validatePassenger is an object, null or undefined
NullPassenger == [isNull |-> TRUE]
UndefinedPassenger == [isUndefined |-> TRUE]
IsObject(passenger) == passenger \notin {NullPassenger, UndefinedPassenger}

\* !value: undefined and "" are falsy, every other string is truthy
Falsy(value) == value \in {Undefined, ""}

\* text.trim(): blanks are " "
Trim(text) == IF text \in {" ", "   "} THEN "" ELSE text

\* passenger?.field
Field(passenger, key) ==
    IF IsObject(passenger) THEN Get(passenger, key) ELSE Undefined

\* passenger?.field?.trim()
TrimmedField(passenger, key) ==
    IF Field(passenger, key) = Undefined THEN Undefined ELSE Trim(Field(passenger, key))

\* a date kept as null
NullDate == [isNull |-> TRUE]

\* passenger?.date?.part
DatePart(passenger, key, part) ==
    IF IsObject(passenger) /\ key \in DOMAIN passenger /\ passenger[key] # NullDate
    THEN Get(passenger[key], part)
    ELSE Undefined

ChoiceFields == {"type", "title", "gender", "nationality", "documentType", "issuingCountry"}
TextFields == {"firstName", "lastName", "documentNumber"}
DateFields == {"dob", "expiryDate"}
PassengerFields == ChoiceFields \cup TextFields \cup DateFields

\* the checks of validatePassenger in the order they are made, each with the
\* name it pushes to missingFields
PassengerChecks ==
    <<[key |-> "type", label |-> "Passenger Type"],
      [key |-> "title", label |-> "Title"],
      [key |-> "firstName", label |-> "First Name"],
      [key |-> "lastName", label |-> "Last Name"],
      [key |-> "gender", label |-> "Gender"],
      [key |-> "nationality", label |-> "Nationality"],
      [key |-> "documentType", label |-> "Document Type"],
      [key |-> "documentNumber", label |-> "Document Number"],
      [key |-> "issuingCountry", label |-> "Issuing Country"],
      [key |-> "dob", label |-> "Date of Birth"],
      [key |-> "expiryDate", label |-> "Document Expiry Date"]>>

\* a date with its day filled in counts as given
FailsCheckDayOnly(passenger, key) ==
    IF key \in TextFields THEN Falsy(TrimmedField(passenger, key))
    ELSE IF key \in DateFields
    THEN Falsy(DatePart(passenger, key, "day"))
    ELSE Falsy(Field(passenger, key))

\* the condition under which validatePassenger pushes the field's name
FailsCheck(passenger, key) ==
    IF key \in TextFields THEN Falsy(TrimmedField(passenger, key))
    ELSE IF key \in DateFields
    THEN \/ Falsy(DatePart(passenger, key, "day"))
         \/ Falsy(DatePart(passenger, key, "month"))
         \/ Falsy(DatePart(passenger, key, "year"))
    ELSE Falsy(Field(passenger, key))

RECURSIVE MissingFrom(_, _)
MissingFrom(passenger, checks) ==
    IF checks = <<>> THEN <<>>
    ELSE (IF FailsCheck(passenger, Head(checks).key) THEN <<Head(checks).label>> ELSE <<>>)
         \o MissingFrom(passenger, Tail(checks))

validatePassenger(passenger) ==
    LET missingFields == MissingFrom(passenger, PassengerChecks)
    IN  [isValid |-> Len(missingFields) = 0, missingFields |-> missingFields]

\* Text of an e-mail address as its characters by kind: "x" a character that
\* is neither a blank nor "@" nor ".", and " ", "@", "." themselves.
NoBlankNoAt(chars, from, to) ==
    /\ from <= to
    /\ \A i \in from..to : chars[i] \notin {" ", "@"}

\* /^[^\s@]+@[^\s@]+\.[^\s@]+$/.test(email)
EmailPattern(chars) ==
    \E a \in 1..Len(chars), d \in 1..Len(chars) :
        /\ a < d
        /\ chars[a] = "@"
        /\ chars[d] = "."
        /\ NoBlankNoAt(chars, 1, a - 1)
        /\ NoBlankNoAt(chars, a + 1, d - 1)
        /\ NoBlankNoAt(chars, d + 1, Len(chars))

\* chars.trim() is empty
BlankChars(chars) == \A i \in 1..Len(chars) : chars[i] = " "

\* contactInfo.email, contactInfo.phone: a missing key reads as no characters
ContactChars(contact, key) == IF key \in DOMAIN contact THEN contact[key] ELSE <<>>

validateContactInfo(contact) ==
    LET missingFields ==
            (IF BlankChars(ContactChars(contact, "email")) THEN <<"Email Address">> ELSE <<>>)
         \o (IF BlankChars(ContactChars(contact, "phone")) THEN <<"Phone Number">> ELSE <<>>)
         \o (IF ContactChars(contact, "email") # <<>>
                /\ ~EmailPattern(ContactChars(contact, "email"))
             THEN <<"Valid Email Address">> ELSE <<>>)
    IN  [isValid |-> Len(missingFields) = 0, missingFields |-> missingFields]

\* Values a filled-in form control holds.
FilledDate == [part \in {"day", "month", "year"} |-> IF part = "day" THEN "15" ELSE IF part = "month" THEN "6" ELSE "1990"]
Filled(key) == IF key \in DateFields THEN FilledDate ELSE IF key \in TextFields THEN "Ann" ELSE "chosen"

\* The ways a field can be left unfilled: its key missing, an empty value, a
\* blank or half-entered value, a null date.
Unfilleds == {"absent", "empty", "partial", "null"}
Unfilled(key, how) ==
    IF key \in DateFields
    THEN IF how = "null" THEN NullDate
         ELSE IF how = "empty" THEN EmptyObject
         ELSE [part \in {"day", "month"} |-> IF part = "day" THEN "15" ELSE "6"]
    ELSE IF key \in TextFields /\ how = "partial" THEN "   " ELSE ""

\* the keys a passenger object has when the fields of met are filled in and
\* the others are left unfilled in the given way
KeysOf(met, how) ==
    IF how = "absent" THEN met
    ELSE IF how = "null" THEN met \cup DateFields
    ELSE PassengerFields

PassengerOf(met, how) ==
    [key \in KeysOf(met, how) |-> IF key \in met THEN Filled(key) ELSE Unfilled(key, how)]

ValidateInputs ==
    {PassengerOf(met, how) : met \in SUBSET PassengerFields, how \in Unfilleds}
        \cup {NullPassenger, UndefinedPassenger}

NotValidated == [pending |-> TRUE]

ValidateInit ==
    /\ candidate \in ValidateInputs
    /\ validation = NotValidated

ValidateIdle ==
    /\ candidate = EmptyObject
    /\ validation = NotValidated

\* a call of validatePassenger(candidate)
Validate ==
    /\ validation = NotValidated
    /\ validation' = validatePassenger(candidate)
    /\ UNCHANGED candidate


----------------------------------------------------------------------------
(* BookingForm: state and handlers *)

\* the largest item of the passenger-count Select
MaxPassengers == 5

\* a Select that also offers 0 and one more than the largest item
PassengerCountOptionsWider == 0..(MaxPassengers + 1)

\* the items of the passenger-count Select
PassengerCountOptions == 1..MaxPassengers

steps == <<"Passenger Details", "Seat Selection", "Extras", "Review">>

\* what the passenger form hands to onPassengerChange
OnlyFirstName == With(EmptyObject, "firstName", "Ann")
CompletePassenger == PassengerOf(PassengerFields, "absent")
PassengerUpdates == {OnlyFirstName, CompletePassenger}

\* the value a control of the passenger form shows for a field:
\* passengerData?.type || "adult", passengerData?.documentType || "passport",
\* passengerData?.field || '' for the others
DisplayedValue(passengerData, key) ==
    IF ~Falsy(Field(passengerData, key)) THEN Field(passengerData, key)
    ELSE IF key = "type" THEN "adult"
    ELSE IF key = "documentType" THEN "passport"
    ELSE ""

\* the value a day, month or year Select shows: passengerData?.dob?.day || ''
DisplayedPart(passengerData, key, part) ==
    IF ~Falsy(DatePart(passengerData, key, part)) THEN DatePart(passengerData, key, part)
    ELSE ""

\* handleContinueToPayment writing the whole passengers array
SliceWhole(array, count) == array

\* what the contact inputs hand to handleContactInfoChange
EmailTexts == {<<" ">>, <<"x", "@", "x">>, <<"x", "@", "x", ".", "x">>}
PhoneTexts == {<<" ">>, <<"x", "x", "x">>}
ContactTexts(id) == IF id = "email" THEN EmailTexts ELSE PhoneTexts

NotWritten == [written |-> FALSE]

FormInit ==
    /\ currentStep = 1
    /\ passengerCount = 1
    /\ passengers = <<>>
    /\ contactInfo = EmptyObject
    /\ termsAccepted = FALSE
    /\ confirmShown = FALSE
    /\ bookingData = NotWritten

FormIdle == FormInit

\* passengers[i] || {} (i counts from 1)
PassengerAt(i) == IF i <= Len(passengers) THEN passengers[i] ELSE EmptyObject

\* passengerValidations over the entries the array holds
passengerValidationsOfArray == [i \in 1..Len(passengers) |-> validatePassenger(passengers[i])]

\* validationState.passengerValidations
passengerValidations == [i \in 1..passengerCount |-> validatePassenger(PassengerAt(i))]

\* validationState.allPassengersValid
allPassengersValid == \A i \in DOMAIN passengerValidations : passengerValidations[i].isValid

\* validationState.contactValidation
contactValidation == validateContactInfo(contactInfo)

isCurrentStepValid ==
    IF currentStep = 1 THEN allPassengersValid /\ contactValidation.isValid
    ELSE IF currentStep \in {2, 3} THEN TRUE
    ELSE IF currentStep = 4
    THEN allPassengersValid /\ contactValidation.isValid /\ termsAccepted
    ELSE FALSE

\* the form is on screen: handleContinueToPayment has not navigated away
OnScreen == bookingData = NotWritten

RECURSIVE Padded(_, _)
\* while (newPassengers.length <= index) newPassengers.push({})
Padded(array, length) ==
    IF Len(array) >= length THEN array ELSE Padded(Append(array, EmptyObject), length)

\* handlePassengerChange(i - 1, updatedData), from the tab of passenger i
handlePassengerChange(i, updatedData) ==
    /\ OnScreen
    /\ currentStep = 1
    /\ i \in 1..passengerCount
    /\ passengers' = [Padded(passengers, i) EXCEPT ![i] = updatedData]
    /\ UNCHANGED <<currentStep, passengerCount, contactInfo, termsAccepted, confirmShown, bookingData>>

\* handleContactInfoChange(id, value)
handleContactInfoChange(id, value) ==
    /\ OnScreen
    /\ currentStep = 1
    /\ contactInfo' = With(contactInfo, id, value)
    /\ UNCHANGED <<currentStep, passengerCount, passengers, termsAccepted, confirmShown, bookingData>>

\* Object.keys(passenger).length > 0
HasKeys(passenger) == DOMAIN passenger # {}

\* passengers.slice(newCount).some(passenger => passenger && Object.keys(passenger).length > 0)
hasDataInRemovedSlots(newCount) ==
    \E i \in (newCount + 1)..Len(passengers) : HasKeys(passengers[i])

\* handlePassengerCountChange(newCount); confirmed is the answer to
\* window.confirm when it is shown
handlePassengerCountChange(newCount, confirmed) ==
    /\ OnScreen
    /\ currentStep = 1
    /\ IF newCount < passengerCount /\ hasDataInRemovedSlots(newCount)
       THEN /\ confirmShown' = TRUE
            /\ passengerCount' = IF confirmed THEN newCount ELSE passengerCount
       ELSE /\ confirmShown' = FALSE
            /\ passengerCount' = newCount
    /\ UNCHANGED <<currentStep, passengers, contactInfo, termsAccepted, bookingData>>

nextStep ==
    /\ OnScreen
    /\ currentStep < Len(steps) /\ isCurrentStepValid
    /\ currentStep' = currentStep + 1
    /\ UNCHANGED <<passengerCount, passengers, contactInfo, termsAccepted, confirmShown, bookingData>>

prevStep ==
    /\ OnScreen
    /\ currentStep > 1
    /\ currentStep' = currentStep - 1
    /\ UNCHANGED <<passengerCount, passengers, contactInfo, termsAccepted, confirmShown, bookingData>>

\* the terms checkbox of the review step: setTermsAccepted(checked)
setTermsAccepted ==
    /\ OnScreen
    /\ currentStep = Len(steps)
    /\ termsAccepted' = ~termsAccepted
    /\ UNCHANGED <<currentStep, passengerCount, passengers, contactInfo, confirmShown, bookingData>>

\* passengers.slice(0, passengerCount)
Slice(array, count) == SubSeq(array, 1, IF count < Len(array) THEN count ELSE Len(array))

handleContinueToPayment ==
    /\ OnScreen
    /\ currentStep = Len(steps)
    /\ isCurrentStepValid
    /\ bookingData' = [written |-> TRUE,
                       passengers |-> Slice(passengers, passengerCount),
                       contactInfo |-> contactInfo]
    /\ UNCHANGED <<currentStep, passengerCount, passengers, contactInfo, termsAccepted, confirmShown>>


----------------------------------------------------------------------------
(* api.searchFlights: the debounced POST to /api/verteil/air-shopping *)

\* debounce(..., 1000): the wait in milliseconds
DebounceMs == 1000

\* searchFlights calls, the step of the clock and the longest silence the
\* model follows, in milliseconds
MaxCalls == 3
TickMs == 500
MaxSilenceMs == 1500

SearchParams == {"LHR-JFK", "LHR-CDG"}

DebounceInit ==
    /\ calls = <<>>
    /\ sinceCall = 0
    /\ timerId = FALSE
    /\ lastArgs = 0
    /\ posts = <<>>

DebounceIdle == DebounceInit

\* api.searchFlights(params): a new promise whose resolve and reject go to
\* the debounced function, which keeps only the arguments of its latest call
\* and starts its timer when none is running
searchFlights(params) ==
    /\ Len(calls) < MaxCalls
    /\ calls' = Append(calls, [params |-> params, promise |-> "pending",
                               sincePrevious |-> IF calls = <<>> THEN MaxSilenceMs
                                                 ELSE sinceCall])
    /\ lastArgs' = Len(calls) + 1
    /\ sinceCall' = 0
    /\ timerId' = TRUE
    /\ UNCHANGED posts

\* time passes
Elapse ==
    /\ sinceCall < MaxSilenceMs
    /\ sinceCall' = sinceCall + TickMs
    /\ UNCHANGED <<calls, timerId, lastArgs, posts>>

\* a timer that expires without waiting
timerExpiredAtOnce ==
    /\ timerId
    /\ posts' = Append(posts, [params |-> calls[lastArgs].params, call |-> lastArgs,
                               settled |-> FALSE])
    /\ timerId' = FALSE
    /\ lastArgs' = 0
    /\ UNCHANGED <<calls, sinceCall>>

\* the timer expires once the wait has passed since the latest call: the
\* debounced function runs with the arguments of the latest call and sends
\* the POST
timerExpired ==
    /\ timerId
    /\ sinceCall >= DebounceMs
    /\ posts' = Append(posts, [params |-> calls[lastArgs].params, call |-> lastArgs,
                               settled |-> FALSE])
    /\ timerId' = FALSE
    /\ lastArgs' = 0
    /\ UNCHANGED <<calls, sinceCall>>

\* apiClient.post resolves: resolve(response) of the call it was sent for
PostResolves(post) ==
    /\ post \in 1..Len(posts)
    /\ ~posts[post].settled
    /\ posts' = [posts EXCEPT ![post].settled = TRUE]
    /\ calls' = [calls EXCEPT ![posts[post].call].promise = "resolved"]
    /\ UNCHANGED <<sinceCall, timerId, lastArgs>>

\* apiClient.post rejects: reject(error) of the call it was sent for
PostRejects(post) ==
    /\ post \in 1..Len(posts)
    /\ ~posts[post].settled
    /\ posts' = [posts EXCEPT ![post].settled = TRUE]
    /\ calls' = [calls EXCEPT ![posts[post].call].promise = "rejected"]
    /\ UNCHANGED <<sinceCall, timerId, lastArgs>>

----------------------------------------------------------------------------
(* FlightsPage: the results of a search, filtered, sorted and paginated *)

\* const itemsPerPage = 10
ItemsPerPage == 10

\* times the load effect runs in one behaviour
MaxSearches == 2

\* const initialFilters
initialFilters == [priceRange |-> <<0, 100000>>, airlines |-> {}, stops |-> {}]

\* useState('price_low'); the page never calls setSortOption
sortOption == "price_low"

\* the answers of a search: no offer, two offers, and more than three pages
NoOffers == <<>>
FewOffers ==
    << [id |-> 1, price |-> 300, airline |-> [name |-> "KQ"], stops |-> 0],
       [id |-> 2, price |-> 200, airline |-> [name |-> "ET"], stops |-> 1] >>
ManyOffers ==
    [i \in 1..(3 * ItemsPerPage + 1) |->
        [id |-> 100 + i,
         price |-> 100 * (((i * 7) % 5) + 1),
         airline |-> [name |-> IF i % 2 = 0 THEN "KQ" ELSE "ET"],
         stops |-> i % 3]]
SearchAnswers == {NoOffers, FewOffers, ManyOffers}

\* the changes the filter panel sends to handleFilterChange
FilterChanges ==
    {[priceRange |-> <<0, 250>>], [priceRange |-> <<0, 100000>>],
     [airlines |-> {"KQ"}], [airlines |-> {}],
     [stops |-> {0}], [stops |-> {}]}

\* { ...prev, ...newFilters }
Spread(prev, newFilters) ==
    [key \in DOMAIN prev |-> IF key \in DOMAIN newFilters THEN newFilters[key] ELSE prev[key]]

\* the callback of allFlights.filter
PassesFilters(flight, f) ==
    LET usingDefaultPriceRange ==
            /\ f.priceRange[1] = initialFilters.priceRange[1]
            /\ f.priceRange[2] = initialFilters.priceRange[2]
    IN  /\ ~(/\ ~usingDefaultPriceRange
             /\ (flight.price < f.priceRange[1] \/ flight.price > f.priceRange[2]))
        /\ ~(f.airlines # {} /\ flight.airline.name \notin f.airlines)
        /\ ~(f.stops # {} /\ flight.stops \notin f.stops)

\* a.price - b.price under 'price_low', b.price - a.price under 'price_high'
Compare(a, b) ==
    IF sortOption = "price_low" THEN a.price - b.price
    ELSE IF sortOption = "price_high" THEN b.price - a.price
    ELSE 0

\* [...list].sort(compare): Array.prototype.sort is stable
Sorted(list) ==
    LET rank(i) == Cardinality({j \in 1..Len(list) :
                        \/ Compare(list[j], list[i]) < 0
                        \/ Compare(list[j], list[i]) = 0 /\ j < i}) + 1
    IN  [k \in 1..Len(list) |-> list[CHOOSE i \in 1..Len(list) : rank(i) = k]]

\* list.slice(startIdx, endIdx) for 0 <= startIdx <= endIdx
SliceFrom(list, startIdx, endIdx) ==
    IF startIdx >= Len(list) THEN <<>>
    ELSE SubSeq(list, startIdx + 1, Min2(endIdx, Len(list)))

\* the filter effect: what flights holds after it ran, shown being what it
\* held before; with no flight the effect returns before setFlights
Paginated(all, f, page, shown) ==
    IF Len(all) = 0 THEN shown
    ELSE LET passes(flight) == PassesFilters(flight, f)
             startIdx == (page - 1) * ItemsPerPage
         IN  SliceFrom(Sorted(SelectSeq(all, passes)), startIdx, startIdx + ItemsPerPage)

\* Math.ceil(allFlights.length / itemsPerPage)
PageCount(all) == (Len(all) + ItemsPerPage - 1) \div ItemsPerPage

\* the state of the useState calls at the first render
ResultsInit ==
    /\ flights = <<>>
    /\ allFlights = <<>>
    /\ filters = initialFilters
    /\ loading = TRUE
    /\ currentPage = 1
    /\ pendingSearches = 0
    /\ searchesRun = 0

ResultsIdle == ResultsInit

\* the load effect, at the mount and at every change of searchParams; it
\* returns early when origin, destination or departDate is missing
LoadFlights(hasRequired) ==
    /\ searchesRun < MaxSearches
    /\ searchesRun' = searchesRun + 1
    /\ currentPage' = 1
    /\ allFlights' = <<>>
    /\ flights' = Paginated(<<>>, filters, 1, flights)
    /\ IF hasRequired
       THEN loading' = TRUE /\ pendingSearches' = pendingSearches + 1
       ELSE loading' = FALSE /\ UNCHANGED pendingSearches
    /\ UNCHANGED filters

\* fetchFlights after api.searchFlights resolved: the response is stored for
\* the details page (a failure of the storage is caught), then
\* setAllFlights(directFlights) and, in finally, setLoading(false)
SearchResolved(offers) ==
    /\ pendingSearches > 0
    /\ pendingSearches' = pendingSearches - 1
    /\ \/ \E storageKey \in FlightDataKeys : StoreFlightData(storageKey)
       \/ UNCHANGED storageVars
    /\ allFlights' = offers
    /\ flights' = Paginated(offers, filters, currentPage, flights)
    /\ loading' = FALSE
    /\ UNCHANGED <<filters, currentPage, searchesRun>>

\* fetchFlights after api.searchFlights rejected: catch logs, finally
\* setLoading(false)
SearchRejected ==
    /\ pendingSearches > 0
    /\ pendingSearches' = pendingSearches - 1
    /\ loading' = FALSE
    /\ UNCHANGED <<flights, allFlights, filters, currentPage, searchesRun>>

handleFilterChange(newFilters) ==
    /\ searchesRun > 0
    /\ filters' = Spread(filters, newFilters)
    /\ flights' = Paginated(allFlights, filters', currentPage, flights)
    /\ UNCHANGED <<allFlights, loading, currentPage, pendingSearches, searchesRun>>

handleResetFilters ==
    /\ searchesRun > 0
    /\ filters' = initialFilters
    /\ flights' = Paginated(allFlights, filters', currentPage, flights)
    /\ UNCHANGED <<allFlights, loading, currentPage, pendingSearches, searchesRun>>

\* setCurrentPage and the filter effect that follows it
setCurrentPage(page) ==
    /\ currentPage' = page
    /\ flights' = Paginated(allFlights, filters, page, flights)
    /\ UNCHANGED <<allFlights, filters, loading, pendingSearches, searchesRun>>

\* the previous-page button, disabled on page 1
PreviousPage ==
    /\ searchesRun > 0
    /\ currentPage # 1
    /\ setCurrentPage(Max2(1, currentPage - 1))

\* one of the at most three numbered buttons
PageButton(i) ==
    /\ searchesRun > 0
    /\ i < Min2(3, PageCount(allFlights))
    /\ setCurrentPage(i + 1)

\* the button of the last page, shown when there are more than three pages
LastPage ==
    /\ searchesRun > 0
    /\ PageCount(allFlights) > 3
    /\ setCurrentPage(PageCount(allFlights))

\* the next-page button, disabled on the last page
NextPage ==
    /\ searchesRun > 0
    /\ ~(currentPage >= PageCount(allFlights))
    /\ setCurrentPage(Min2(PageCount(allFlights), currentPage + 1))

----------------------------------------------------------------------------
(* Specifications *)

\* the flight-details page building its display offer
SpecDisplayInit ==
    /\ DisplayInit /\ BatchIdle /\ SplitIdle /\ PenaltyIdle /\ ClassIdle /\ FetchIdle
    /\ IdentIdle /\ WorkersIdle /\ ValidateIdle /\ FormIdle /\ StorageIdle /\ RefetchIdle /\ DebounceIdle /\ ResultsIdle
    /\ enableRoundtripSplit = FALSE

SpecDisplayNext ==
    \/ SetFlightOffer /\ UNCHANGED notDisplay
    \/ SetPricedOffer /\ UNCHANGED notDisplay
    \/ Render /\ UNCHANGED notDisplay

SpecDisplay == SpecDisplayInit /\ [][SpecDisplayNext]_vars

\* one transformation call over a response
SpecBatchInit ==
    /\ BatchInit /\ DisplayIdle /\ SplitIdle /\ PenaltyIdle /\ ClassIdle /\ FetchIdle
    /\ IdentIdle /\ WorkersIdle /\ ValidateIdle /\ FormIdle /\ StorageIdle /\ RefetchIdle /\ DebounceIdle /\ ResultsIdle
    /\ enableRoundtripSplit \in BOOLEAN

SpecBatchNext ==
    \/ EmitOffer /\ UNCHANGED notBatch
    \/ DropOffer /\ UNCHANGED notBatch

SpecBatch == SpecBatchInit /\ [][SpecBatchNext]_vars

\* the trip splitter on one offer
SpecSplitInit ==
    /\ SplitInit /\ DisplayIdle /\ BatchIdle /\ PenaltyIdle /\ ClassIdle /\ FetchIdle
    /\ IdentIdle /\ WorkersIdle /\ ValidateIdle /\ FormIdle /\ StorageIdle /\ RefetchIdle /\ DebounceIdle /\ ResultsIdle
    /\ enableRoundtripSplit \in BOOLEAN

SpecSplitNext ==
    \/ Split /\ UNCHANGED notSplit
    \/ SkipSplit /\ UNCHANGED notSplit
    \/ SplitAgain /\ UNCHANGED notSplit

SpecSplit == SpecSplitInit /\ [][SpecSplitNext]_vars

\* the penalty aggregator on one itinerary
SpecPenaltyInit ==
    /\ PenaltyInit /\ ClassIdle /\ DisplayIdle /\ BatchIdle /\ SplitIdle /\ FetchIdle
    /\ IdentIdle /\ WorkersIdle /\ ValidateIdle /\ FormIdle /\ StorageIdle /\ RefetchIdle /\ DebounceIdle /\ ResultsIdle
    /\ enableRoundtripSplit = FALSE

SpecPenaltyNext ==
    Aggregate /\ UNCHANGED notPenalty

SpecPenalty == SpecPenaltyInit /\ [][SpecPenaltyNext]_vars

\* the classification of one penalty record
SpecClassifyInit ==
    /\ ClassInit /\ PenaltyIdle /\ DisplayIdle /\ BatchIdle /\ SplitIdle /\ FetchIdle
    /\ IdentIdle /\ WorkersIdle /\ ValidateIdle /\ FormIdle /\ StorageIdle /\ RefetchIdle /\ DebounceIdle /\ ResultsIdle
    /\ enableRoundtripSplit = FALSE

SpecClassifyNext ==
    ClassifyRecord /\ UNCHANGED notClass

SpecClassify == SpecClassifyInit /\ [][SpecClassifyNext]_vars


\* the flight-details page fetching the price of the selected offer
SpecFetchInit ==
    /\ FetchInit /\ BatchIdle /\ SplitIdle /\ PenaltyIdle /\ ClassIdle /\ IdentIdle
    /\ WorkersIdle /\ ValidateIdle /\ FormIdle /\ StorageIdle /\ RefetchIdle /\ DebounceIdle /\ ResultsIdle
    /\ enableRoundtripSplit = FALSE

SpecFetchNext ==
    \/ FetchFlightPrice /\ UNCHANGED notFetch
    \/ PriceResolved /\ UNCHANGED notFetch
    \/ PriceRejected /\ UNCHANGED notFetch

SpecFetch == SpecFetchInit /\ [][SpecFetchNext]_vars


\* one raw offer normalized twice in one shopping session
SpecIdentInit ==
    /\ IdentInit /\ DisplayIdle /\ BatchIdle /\ SplitIdle /\ PenaltyIdle /\ ClassIdle
    /\ FetchIdle /\ WorkersIdle /\ ValidateIdle /\ FormIdle /\ StorageIdle /\ RefetchIdle /\ DebounceIdle /\ ResultsIdle
    /\ enableRoundtripSplit = FALSE

SpecIdentNext ==
    \/ NormalizeFirst /\ UNCHANGED notIdent
    \/ NormalizeSecond /\ UNCHANGED notIdent

SpecIdent == SpecIdentInit /\ [][SpecIdentNext]_vars


\* the offers of one response normalized by the engine and by a worker pool
SpecWorkersInit ==
    /\ WorkersInit /\ DisplayIdle /\ BatchIdle /\ SplitIdle /\ PenaltyIdle /\ ClassIdle
    /\ FetchIdle /\ IdentIdle /\ ValidateIdle /\ FormIdle /\ StorageIdle /\ RefetchIdle /\ DebounceIdle /\ ResultsIdle
    /\ enableRoundtripSplit \in BOOLEAN

SpecWorkersNext ==
    \/ RunSequentially /\ UNCHANGED notWorkers
    \/ \E w \in Workers, i \in 1..Len(workBatch) : WorkerTakes(w, i) /\ UNCHANGED notWorkers
    \/ \E w \in Workers : WorkerFinishes(w) /\ UNCHANGED notWorkers
    \/ Gather /\ UNCHANGED notWorkers

SpecWorkers == SpecWorkersInit /\ [][SpecWorkersNext]_vars


\* one call of validatePassenger on a passenger of the form
SpecValidateInit ==
    /\ ValidateInit /\ DisplayIdle /\ BatchIdle /\ SplitIdle /\ PenaltyIdle /\ ClassIdle
    /\ FetchIdle /\ IdentIdle /\ WorkersIdle /\ FormIdle /\ StorageIdle /\ RefetchIdle /\ DebounceIdle /\ ResultsIdle
    /\ enableRoundtripSplit \in BOOLEAN

SpecValidateNext ==
    \/ Validate /\ UNCHANGED notValidate

SpecValidate == SpecValidateInit /\ [][SpecValidateNext]_vars


\* the booking form from its first render to 'Continue to Payment'
SpecFormInit ==
    /\ FormInit /\ DisplayIdle /\ BatchIdle /\ SplitIdle /\ PenaltyIdle /\ ClassIdle
    /\ FetchIdle /\ IdentIdle /\ WorkersIdle /\ ValidateIdle /\ StorageIdle /\ RefetchIdle /\ DebounceIdle /\ ResultsIdle
    /\ enableRoundtripSplit \in BOOLEAN

SpecFormNext ==
    \/ \E i \in 1..MaxPassengers, updatedData \in PassengerUpdates :
           handlePassengerChange(i, updatedData) /\ UNCHANGED notForm
    \/ \E id \in {"email", "phone"} : \E value \in ContactTexts(id) :
           handleContactInfoChange(id, value) /\ UNCHANGED notForm
    \/ \E newCount \in PassengerCountOptions, confirmed \in BOOLEAN :
           handlePassengerCountChange(newCount, confirmed) /\ UNCHANGED notForm
    \/ nextStep /\ UNCHANGED notForm
    \/ prevStep /\ UNCHANGED notForm
    \/ setTermsAccepted /\ UNCHANGED notForm
    \/ handleContinueToPayment /\ UNCHANGED notForm

SpecForm == SpecFormInit /\ [][SpecFormNext]_vars


\* the flight-details page retrieving its search data, then pricing
SpecRetrieveInit ==
    /\ RetrieveInit /\ BatchIdle /\ SplitIdle /\ PenaltyIdle /\ ClassIdle /\ IdentIdle
    /\ WorkersIdle /\ ValidateIdle /\ FormIdle /\ RefetchIdle /\ DebounceIdle /\ ResultsIdle
    /\ enableRoundtripSplit = FALSE

SpecRetrieveNext ==
    \/ Tick /\ UNCHANGED notStorage
    \/ \E storageKey \in FlightDataKeys : StoreFlightData(storageKey) /\ UNCHANGED notStorage
    \/ RetrieveFlightData /\ UNCHANGED notRetrieve
    \/ FetchFlightPrice /\ UNCHANGED notFetch
    \/ PriceResolved /\ UNCHANGED notFetch
    \/ PriceRejected /\ UNCHANGED notFetch

SpecRetrieve == SpecRetrieveInit /\ [][SpecRetrieveNext]_vars


\* the flight-details page with its effect running again while requests are
\* in flight
SpecRefetchInit ==
    /\ RefetchInit /\ BatchIdle /\ SplitIdle /\ PenaltyIdle /\ ClassIdle /\ IdentIdle
    /\ WorkersIdle /\ ValidateIdle /\ FormIdle /\ DebounceIdle /\ ResultsIdle
    /\ enableRoundtripSplit = FALSE

SpecRefetchNext ==
    \/ RetrieveFlightData /\ UNCHANGED notRetrieve
    \/ FetchFlightPrice /\ UNCHANGED notFetch
    \/ \E newFlightId \in {<<"OFFER1">>, <<"OFFER2">>} :
           DepsChange(newFlightId) /\ UNCHANGED notRefetch
    \/ \E request \in 1..MaxRequests : ResponseResolved(request) /\ UNCHANGED notRefetch
    \/ \E request \in 1..MaxRequests : ResponseRejected(request) /\ UNCHANGED notRefetch

SpecRefetch == SpecRefetchInit /\ [][SpecRefetchNext]_vars


\* api.searchFlights called up to MaxCalls times
SpecDebounceInit ==
    /\ DebounceInit /\ DisplayIdle /\ BatchIdle /\ SplitIdle /\ PenaltyIdle /\ ClassIdle
    /\ FetchIdle /\ IdentIdle /\ WorkersIdle /\ ValidateIdle /\ FormIdle /\ StorageIdle
    /\ RefetchIdle /\ ResultsIdle
    /\ enableRoundtripSplit \in BOOLEAN

SpecDebounceNext ==
    \/ \E params \in SearchParams : searchFlights(params) /\ UNCHANGED notDebounce
    \/ Elapse /\ UNCHANGED notDebounce
    \/ timerExpired /\ UNCHANGED notDebounce
    \/ \E post \in 1..MaxCalls : PostResolves(post) /\ UNCHANGED notDebounce
    \/ \E post \in 1..MaxCalls : PostRejects(post) /\ UNCHANGED notDebounce

SpecDebounce == SpecDebounceInit /\ [][SpecDebounceNext]_vars

\* the same with time passing, the timer expiring and every POST settling:
\* setTimeout callbacks run, and the axios client times out after 30 seconds
SpecDebounceLive ==
    /\ SpecDebounce
    /\ WF_vars(Elapse /\ UNCHANGED notDebounce)
    /\ WF_vars(timerExpired /\ UNCHANGED notDebounce)
    /\ WF_vars(\E post \in 1..MaxCalls :
                  (PostResolves(post) \/ PostRejects(post)) /\ UNCHANGED notDebounce)

\* the results page loaded up to MaxSearches times
SpecResultsInit ==
    /\ ResultsInit /\ DisplayIdle /\ BatchIdle /\ SplitIdle /\ PenaltyIdle /\ ClassIdle
    /\ FetchIdle /\ IdentIdle /\ WorkersIdle /\ ValidateIdle /\ FormIdle /\ StorageIdle
    /\ RefetchIdle /\ DebounceIdle
    /\ enableRoundtripSplit \in BOOLEAN

SpecResultsNext ==
    \/ \E hasRequired \in BOOLEAN : LoadFlights(hasRequired) /\ UNCHANGED <<storageVars, notResults>>
    \/ \E offers \in SearchAnswers : SearchResolved(offers) /\ UNCHANGED notResults
    \/ SearchRejected /\ UNCHANGED <<storageVars, notResults>>
    \/ \E newFilters \in FilterChanges :
          handleFilterChange(newFilters) /\ UNCHANGED <<storageVars, notResults>>
    \/ handleResetFilters /\ UNCHANGED <<storageVars, notResults>>
    \/ PreviousPage /\ UNCHANGED <<storageVars, notResults>>
    \/ \E i \in 0..2 : PageButton(i) /\ UNCHANGED <<storageVars, notResults>>
    \/ LastPage /\ UNCHANGED <<storageVars, notResults>>
    \/ NextPage /\ UNCHANGED <<storageVars, notResults>>

SpecResults == SpecResultsInit /\ [][SpecResultsNext]_vars








----------------------------------------------------------------------------
(* Claims C1-C4: canonical offers and the trip splitter *)

\* C1 as stated: the offer the flight-details page builds for display has
\* stops = segments.length - 1 and at least one segment.
C1_StopsIsSegmentsMinusOne ==
    formattedFlight # None =>
        /\ formattedFlight.stops = Len(formattedFlight.segments) - 1
        /\ Len(formattedFlight.segments) >= 1

\* C1 (amended): every offer the engine produced, and the offer the page
\* builds for display, has stops = max(0, segments.length - 1), which is
\* segments.length - 1 whenever there is a segment; the flight card shows
\* that same number of stops.
C1_StopsIsMaxZeroSegmentsMinusOne ==
    /\ (flightOffer # None /\ flightOffer.hasSegments) =>
          flightOffer.stops = Max2(0, Len(flightOffer.segments) - 1)
    /\ formattedFlight # None =>
          /\ formattedFlight.stops = Max2(0, Len(formattedFlight.segments) - 1)
          /\ Len(formattedFlight.segments) >= 1 =>
                formattedFlight.stops = Len(formattedFlight.segments) - 1
          /\ flightOffer.hasSegments =>
                Len(formattedFlight.segments) = Len(flightOffer.segments)
          /\ cardStops = formattedFlight.stops

\* a connecting flight is on display
C1_Witness ==
    /\ formattedFlight # None
    /\ Len(formattedFlight.segments) >= 2
    /\ formattedFlight.stops >= 1

\* an offer was split into an outbound and a return offer
WasSplit == splitPc \in {"split", "resplit"} /\ Len(legs) = 2

\* C2: for any offer that was split, the outbound offer's segments followed
\* by the return offer's segments are the parent's segment list exactly.
C2_SplitIsLossless ==
    WasSplit =>
        /\ legs[1].direction = "outbound"
        /\ legs[2].direction = "return"
        /\ legs[1].segments \o legs[2].segments = parent.segments

\* a four-segment round trip was split
C2_Witness ==
    /\ WasSplit
    /\ Len(parent.segments) = 4
    /\ Len(legs[1].segments) = 2

----------------------------------------------------------------------------
(* Claims C5-C9: penalty aggregation *)

\* the usable records of one action among the segments of one OD leg
Usable(leg, action) ==
    {i \in leg.from..leg.to :
        penalties[i].action = action /\ penalties[i].kind # "malformed"}

\* fee is the range from the least minimum to the greatest maximum of the
\* records at `indices`, or absent when there are none
IsMinMaxOver(fee, indices) ==
    IF indices = {}
    THEN ~fee.present
    ELSE /\ fee.present
         /\ \A i \in indices : fee.min <= RecordMin(penalties[i])
         /\ \E i \in indices : fee.min = RecordMin(penalties[i])
         /\ \A i \in indices : fee.max >= RecordMax(penalties[i])
         /\ \E i \in indices : fee.max = RecordMax(penalties[i])

OneWayABC ==
    <<[dep |-> "A", arr |-> "B"], [dep |-> "B", arr |-> "C"]>>

RoundTripABCBA ==
    <<[dep |-> "A", arr |-> "B"], [dep |-> "B", arr |-> "C"],
      [dep |-> "C", arr |-> "B"], [dep |-> "B", arr |-> "A"]>>

\* C5: for each action and each OD leg the aggregate is (least segment
\* minimum, greatest segment maximum) over the segments of that leg; A-B
\* (100, 120) with B-C (110, 200) gives A-C (100, 200).
C5_MinOfMinsMaxOfMaxs ==
    penaltyPc = "done" =>
        /\ Len(fareRules) = Len(ODLegs(itinerary))
        /\ \A l \in 1..Len(fareRules) :
              /\ IsMinMaxOver(fareRules[l].cancel, Usable(ODLegs(itinerary)[l], "cancel"))
              /\ IsMinMaxOver(fareRules[l].change, Usable(ODLegs(itinerary)[l], "change"))
        /\ (/\ itinerary = OneWayABC
            /\ penalties = <<Range("cancel", 100, 120), Range("cancel", 110, 200)>>)
           => fareRules = <<[cancel |-> [present |-> TRUE, min |-> 100, max |-> 200],
                             change |-> NoFee]>>

\* the one-way example A-B-C has been aggregated
C5_Witness ==
    /\ penaltyPc = "done"
    /\ itinerary = OneWayABC
    /\ penalties = <<Range("cancel", 100, 120), Range("cancel", 110, 200)>>
    /\ fareRules[1].cancel.max = 200

C8_SingleAmountIsMinAndMax ==
    penaltyPc = "done" =>
        \A l \in 1..Len(fareRules) :
            LET u == Usable(ODLegs(itinerary)[l], "cancel")
            IN  (Cardinality(u) = 1 /\ \A i \in u : penalties[i].kind = "single")
                => \A i \in u :
                      fareRules[l].cancel =
                          [present |-> TRUE, min |-> penalties[i].amount,
                           max |-> penalties[i].amount]

\* a one-segment itinerary with the single amount 200 has been aggregated
C8_Witness ==
    /\ penaltyPc = "done"
    /\ Len(itinerary) = 1
    /\ penalties = <<Single("cancel", 200)>>
    /\ fareRules[1].cancel = [present |-> TRUE, min |-> 200, max |-> 200]

\* C9: codes 1, 2, 3, 4 mean after departure no-show, prior to departure,
\* after departure, before departure no-show; each has exactly that meaning
\* and no other code has any of them.
C9_ApplicabilityMappingExact ==
    classified # None =>
        /\ (penaltyRecord.code = 1) <=> (classified.window = "after departure, no-show")
        /\ (penaltyRecord.code = 2) <=> (classified.window = "prior to departure")
        /\ (penaltyRecord.code = 3) <=> (classified.window = "after departure")
        /\ (penaltyRecord.code = 4) <=> (classified.window = "before departure, no-show")

\* a record with code 4 has been classified
C9_Witness ==
    /\ classified # None
    /\ penaltyRecord.code = 4
    /\ classified.window = "before departure, no-show"

----------------------------------------------------------------------------
(* Claim C10: a missing reference drops one offer, not the response *)

HasDanglingRef(raw) ==
    \E k \in 1..Len(raw.segRefs) : raw.segRefs[k] \notin DOMAIN ReferenceIndex

\* the output offers that came from the raw offer `raw`
EmittedFor(raw) == {k \in 1..Len(out) : <<Head(out[k].id)>> = raw.id}

\* C10: an offer that references an absent segment id is left out of the
\* output with a ReferenceMissing diagnostic, every other offer of the
\* response that normalizes is still returned, and the call goes on to the
\* end of the response.
C10_MissingReferenceSkipsOneOffer ==
    /\ \A i \in 1..pos :
          LET raw == rawOffers[i]
          IN  /\ HasDanglingRef(raw) =>
                    /\ EmittedFor(raw) = {}
                    /\ \E d \in 1..Len(diagnostics) :
                          diagnostics[d] = [offerId |-> raw.id, reason |-> "ReferenceMissing"]
              /\ (~HasDanglingRef(raw) /\ raw.hasPrice) => EmittedFor(raw) # {}
    /\ \A i \in (pos + 1)..Len(rawOffers) : EmittedFor(rawOffers[i]) = {}
    /\ dropped = Len(diagnostics)
    /\ dropped = Cardinality({i \in 1..pos : HasDanglingRef(rawOffers[i]) \/ ~rawOffers[i].hasPrice})
    /\ pos < Len(rawOffers) => ENABLED SpecBatchNext

\* of three offers the first referenced an absent id as its third segment
\* and was dropped; the two after it were returned
C10_Witness ==
    /\ Len(rawOffers) = 3
    /\ pos = 3
    /\ rawOffers[1].segRefs = <<"SEG1", "SEG2", DanglingRef>>
    /\ dropped = 1
    /\ EmittedFor(rawOffers[2]) # {}
    /\ EmittedFor(rawOffers[3]) # {}

----------------------------------------------------------------------------
(* Claim C11: the lookup of shopping_response_id *)

\* the lookup ran: the offers array and the selected offer were found first
LookupRan == fetchPc \in {"awaiting", "done"} /\ flightOffer # None

\* the candidate depths at which the stored response holds an identifier
HoldingDepths ==
    {d \in 0..3 : Truthy(ShoppingResponseIdAt(airShoppingResponseData, d))}

\* C11: shopping_response_id is looked up at data.data.data, data.data, data
\* and the root, deepest first; the value at the deepest of these that holds
\* one is used, with the level it was found at, in one pricing request; when
\* none of the four holds one the call ends with the "Shopping response ID
\* not found" error and no pricing request is sent, so no request ever
\* carries an undefined or empty identifier.
C11_FixedPathLookup ==
    /\ LookupRan =>
          IF HoldingDepths = {}
          THEN /\ error = "Shopping response ID not found"
               /\ fetchPc = "done"
               /\ pricingRequests = <<>>
               /\ pricedOffer = None
          ELSE \E d \in HoldingDepths :
                  /\ \A e \in HoldingDepths : e <= d
                  /\ shoppingResponseId = ShoppingResponseIdAt(airShoppingResponseData, d)
                  /\ airShoppingRsData = d
                  /\ pricingRequests =
                        <<[offerId |-> flightId, shoppingResponseId |-> shoppingResponseId,
                           airShoppingRsData |-> d]>>
                  /\ error # "Shopping response ID not found"
    /\ \A i \in 1..Len(pricingRequests) : Truthy(pricingRequests[i].shoppingResponseId)

\* a response holding identifiers at the root, three levels down and four
\* levels down was looked up: the one three levels down went into the request
C11_Witness ==
    /\ LookupRan
    /\ Len(airShoppingResponseData.levels) = 5
    /\ Truthy(airShoppingResponseData.levels[5])
    /\ Truthy(airShoppingResponseData.levels[1])
    /\ airShoppingRsData = 3
    /\ shoppingResponseId = "SR3"
    /\ Len(pricingRequests) = 1

----------------------------------------------------------------------------
(* Claim C12: stable offer identifiers *)

\* C12: normalizing the same raw offer again yields the same identifier,
\* also when the raw offer has neither an OfferID nor an OfferItemID and the
\* fallback identifier is used.
C12_IdentifierIsStable ==
    identPc = "twice" => firstOffer.id = secondOffer.id

----------------------------------------------------------------------------
(* Claim C13: the identifiers of the two legs *)

----------------------------------------------------------------------------
(* Claim C14: no leg boundary *)

\* C14: with splitting enabled, a round-trip-flagged offer in which the
\* splitter finds no leg boundary is returned once, unchanged, in its parent
\* form: it is neither dropped nor returned twice.
C14_UnsplitReturnedOnce ==
    (splitPc \in {"split", "resplit"} /\ enableRoundtripSplit
        /\ parent.tripType = "round-trip" /\ SplitPoint(parent.segments) = 0) =>
        /\ Len(legs) = 1
        /\ legs[1] = parent
        /\ legs[1].id = parent.id
        /\ legs[1].direction = Unsplit

\* a round-trip-flagged offer A-B, B-C, which never turns back, went through
\* the splitter and came out as it was
C14_Witness ==
    /\ splitPc = "split"
    /\ enableRoundtripSplit
    /\ parent.tripType = "round-trip"
    /\ parent.segments = OneWayABC
    /\ legs = <<parent>>

----------------------------------------------------------------------------
(* Claim C15: the duration on display *)

\* the minutes an ISO-style duration stands for: 60 for each hour, 1 for
\* each minute, nothing for any other duration
MinutesOf(d) ==
    IF d.kind # "iso" THEN 0
    ELSE LET HoursIn == {i \in 1..Len(d.parts) : d.parts[i].unit = "H"}
             MinsIn  == {i \in 1..Len(d.parts) : d.parts[i].unit = "M"}
         IN  (IF HoursIn = {} THEN 0 ELSE 60 * d.parts[CHOOSE i \in HoursIn : TRUE].n)
             + (IF MinsIn = {} THEN 0 ELSE d.parts[CHOOSE i \in MinsIn : TRUE].n)

RECURSIVE SumOfMinutes(_)
SumOfMinutes(segments) ==
    IF segments = <<>> THEN 0
    ELSE MinutesOf(Head(segments).duration) + SumOfMinutes(Tail(segments))

\* the duration is made of whole hours and a minutes part below 60 that
\* together are `total` minutes
IsHoursAndMinutesOf(duration, total) ==
    /\ duration.kind = "hm"
    /\ duration.m \in 0..59
    /\ duration.h >= 0
    /\ 60 * duration.h + duration.m = total

\* C15 as stated: the duration on display is the supplied total when the
\* offer carries one, else the sum of the segment durations.
C15_SuppliedTotalElseSum ==
    formattedFlight # None =>
        IF HasText(flightOffer.duration)
        THEN formattedFlight.duration = flightOffer.duration
        ELSE IsHoursAndMinutesOf(formattedFlight.duration, SumOfMinutes(flightOffer.segments))

\* C15 (amended): the duration on display is the supplied total when the
\* offer carries one other than "0h 0m"; otherwise it is the sum over the
\* segments of 60*H + M, written as whole hours and a minutes part below 60.
C15_SuppliedTotalUnlessZeroElseSum ==
    formattedFlight # None =>
        IF HasText(flightOffer.duration) /\ flightOffer.duration # HM(0, 0)
        THEN formattedFlight.duration = flightOffer.duration
        ELSE IsHoursAndMinutesOf(formattedFlight.duration, SumOfMinutes(flightOffer.segments))

\* an offer without a total, flown in PT1H15M, PT45M and PT50M30S, is on
\* display with "2h 50m"
C15_Witness ==
    /\ formattedFlight # None
    /\ flightOffer.duration = NoDuration
    /\ Len(flightOffer.segments) = 3
    /\ flightOffer.segments[1].duration = Iso(<<Part(1, "H"), Part(15, "M")>>)
    /\ flightOffer.segments[2].duration = Iso(<<Part(45, "M")>>)
    /\ flightOffer.segments[3].duration = Iso(<<Part(50, "M"), Part(30, "S")>>)
    /\ formattedFlight.duration = HM(2, 50)

----------------------------------------------------------------------------
(* Claim C16: order independence *)

----------------------------------------------------------------------------
(* C20 *)

\* The required item of a passenger is present: a chosen value, a non-blank
\* text, a date with day, month and year.
ItemPresent(passenger, key) ==
    /\ passenger \notin {NullPassenger, UndefinedPassenger}
    /\ key \in DOMAIN passenger
    /\ IF key \in DateFields
       THEN /\ passenger[key] # NullDate
            /\ \A part \in {"day", "month", "year"} :
                   part \in DOMAIN passenger[key] /\ passenger[key][part] # ""
       ELSE passenger[key] \notin {"", " ", "   "}

UnmetItems(passenger) == {key \in PassengerFields : ~ItemPresent(passenger, key)}

LabelOf(key) == (CHOOSE i \in 1..Len(PassengerChecks) : PassengerChecks[i].key = key)

\* C20: validatePassenger reports a passenger valid exactly when all 11
\* required items are present, lists one missing field per unmet item, and
\* reports exactly 11 missing fields for an empty, null or undefined passenger.
C20_ValidExactlyWhenComplete ==
    validation # NotValidated =>
        /\ validation.isValid <=> UnmetItems(candidate) = {}
        /\ Len(validation.missingFields) = Cardinality(UnmetItems(candidate))
        /\ SetOf(validation.missingFields)
               = {PassengerChecks[LabelOf(key)].label : key \in UnmetItems(candidate)}
        /\ candidate \in {EmptyObject, NullPassenger, UndefinedPassenger}
               => Len(validation.missingFields) = 11

C20_Witness ==
    /\ validation # NotValidated
    /\ candidate = NullPassenger
    /\ Len(validation.missingFields) = 11
    /\ ~validation.isValid

----------------------------------------------------------------------------
(* C17-C19 *)

\* passenger i of the form has all 11 required items
PassengerComplete(i) == i <= Len(passengers) /\ UnmetItems(passengers[i]) = {}

\* the contact e-mail is a well-formed address and the phone is not blank
ContactComplete ==
    /\ "email" \in DOMAIN contactInfo
    /\ "phone" \in DOMAIN contactInfo
    /\ EmailPattern(contactInfo["email"])
    /\ \E i \in 1..Len(contactInfo["phone"]) : contactInfo["phone"][i] # " "

\* C17: the step number increases only when the current step is valid, and
\* step 1 is left only when every passenger 1..passengerCount has all 11
\* required fields and the contact e-mail and phone are valid, also right
\* after the passenger count has been increased.
C17_AdvanceOnlyWhenValid ==
    [][/\ currentStep' > currentStep => isCurrentStepValid /\ currentStep' = currentStep + 1
       /\ (currentStep = 1 /\ currentStep' # 1) =>
              /\ \A i \in 1..passengerCount : PassengerComplete(i)
              /\ ContactComplete]_vars

C17_Witness ==
    /\ currentStep = 2
    /\ passengerCount = 3
    /\ \A i \in 1..passengerCount : PassengerComplete(i)
    /\ ContactComplete

\* a slot that the change to newCount removes holds entered data
RemovedSlotHoldsData(newCount) ==
    \E i \in (newCount + 1)..passengerCount : HasKeys(PassengerAt(i))

\* C18: reducing the passenger count when a slot being removed holds entered
\* data asks for confirmation first; declined, the count and all entered data
\* stay unchanged; confirmed, or with no removed slot holding data, the count
\* becomes the requested value.
C18_ConfirmBeforeDataLoss ==
    [][\A newCount \in PassengerCountOptions, confirmed \in BOOLEAN :
           handlePassengerCountChange(newCount, confirmed) =>
               IF newCount < passengerCount /\ RemovedSlotHoldsData(newCount)
               THEN /\ confirmShown'
                    /\ confirmed => passengerCount' = newCount
                    /\ ~confirmed => /\ passengerCount' = passengerCount
                                     /\ passengers' = passengers
                                     /\ contactInfo' = contactInfo
               ELSE passengerCount' = newCount]_vars

\* C19: the passenger count is always between 1 and 5.
C19_CountBetweenOneAndFive == passengerCount >= 1 /\ passengerCount <= 5

C19_Witness == passengerCount = 1 /\ Len(passengers) = 5 /\ confirmShown

----------------------------------------------------------------------------
(* C24, C28, C30 *)

\* C24: after a confirmed reduction of the passenger count the data of the
\* removed passengers is gone from the form state, so raising the count
\* again shows empty forms: no entry beyond passengerCount holds data.
C24_RemovedDataIsGone ==
    \A i \in (passengerCount + 1)..Len(passengers) : ~HasKeys(passengers[i])

\* C28: whenever the current step is 2, 3 or 4 every passenger
\* 1..passengerCount is valid and the contact information is valid, and the
\* booking data written at 'Continue to Payment' holds exactly passengerCount
\* complete passengers.
C28_LaterStepsAreValid ==
    /\ currentStep \in {2, 3, 4} =>
           /\ \A i \in 1..passengerCount : PassengerComplete(i)
           /\ ContactComplete
    /\ bookingData # NotWritten =>
           /\ Len(bookingData.passengers) = passengerCount
           /\ \A i \in 1..Len(bookingData.passengers) :
                  UnmetItems(bookingData.passengers[i]) = {}

C28_Witness ==
    /\ bookingData # NotWritten
    /\ Len(bookingData.passengers) = 2
    /\ Len(passengers) > 2

\* the passenger form shows a non-empty value for every required field
DisplaysEveryField(passengerData) ==
    \A key \in PassengerFields :
        IF key \in DateFields
        THEN \A part \in {"day", "month", "year"} : DisplayedPart(passengerData, key, part) # ""
        ELSE DisplayedValue(passengerData, key) \notin {"", " ", "   "}

\* C30: a passenger whose form displays a non-empty value for every required
\* field (the pre-selected 'adult' and 'passport' included) is reported
\* valid, so it does not keep the Continue button disabled.
C30_DisplayedCompleteIsValid ==
    (validation # NotValidated /\ DisplaysEveryField(candidate)) => validation.isValid

----------------------------------------------------------------------------
(* C29 *)

\* C29: for a round-trip search the offer stored as the return flight is
\* never the same offer as the selected flight.
C29_ReturnIsNotSelected ==
    (tripType = "round-trip" /\ returnFlightOffer # None) =>
        returnFlightOffer.id # flightId

----------------------------------------------------------------------------
(* C21, C22 *)

\* the data each source yields, read off the stored state
PointerYield ==
    LET pointer == localStorage["currentFlightDataKey"]
    IN  IF /\ pointer.kind = "text"
           /\ localStorage[pointer.text].kind = "json"
           /\ localStorage[pointer.text].value.expiresAt > now
        THEN localStorage[pointer.text].value.airShoppingResponse
        ELSE None
UrlYield == IF searchParams.kind = "json" THEN searchParams.value ELSE None
LegacyYield ==
    IF localStorage["airShoppingResponse"].kind = "json"
    THEN localStorage["airShoppingResponse"].value
    ELSE None
ScanYields ==
    {localStorage[key].value.airShoppingResponse :
        key \in {k \in FlightDataKeys : /\ localStorage[k].kind = "json"
                                       /\ localStorage[k].value.expiresAt > now
                                       /\ localStorage[k].value.airShoppingResponse # None}}

\* fetchFlightPrice has just gone through its retrieval
Retrieved == fetchPc = "retrieve" /\ fetchPc' # "retrieve"

\* C21: the page takes its search data from the first source that yields
\* data, in the order pointer entry, URL parameter, legacy item, scan of the
\* flightData_ entries; when none yields data it ends in the 'No flight
\* search data found' error state and sends no pricing request.
C21_FirstSourceThatYields ==
    [][Retrieved =>
          IF PointerYield # None
          THEN airShoppingResponseData' = PointerYield /\ fetchPc' = "start"
          ELSE IF UrlYield # None
          THEN airShoppingResponseData' = UrlYield /\ fetchPc' = "start"
          ELSE IF LegacyYield # None
          THEN airShoppingResponseData' = LegacyYield /\ fetchPc' = "start"
          ELSE IF ScanYields # {}
          THEN airShoppingResponseData' \in ScanYields /\ fetchPc' = "start"
          ELSE /\ error' = "No flight search data found"
               /\ fetchPc' = "done"
               /\ pricingRequests' = <<>>]_vars

\* the flightData_ entries that have expired
ExpiredKeys ==
    {key \in FlightDataKeys : /\ localStorage[key].kind = "json"
                             /\ localStorage[key].value.expiresAt <= now}

\* C22: stored search data expires 24 hours after it is stored; the page
\* never takes its data from a flightData_ entry whose expiresAt is not later
\* than the current time, and an expired entry reached through
\* currentFlightDataKey is removed together with that pointer.
C22_ExpiredDataIsNeverUsed ==
    [][/\ \A key \in FlightDataKeys :
              StoreFlightData(key) => localStorage'[key].value.expiresAt = now + 24
       /\ Retrieved =>
              /\ \A key \in ExpiredKeys :
                     /\ airShoppingResponseData' # EntryDoc(key)
                     /\ localStorage["currentFlightDataKey"] = KeyName(key) =>
                            /\ localStorage'[key] = Absent
                            /\ localStorage'["currentFlightDataKey"] = Absent]_vars

C22_Witness ==
    /\ fetchPc = "start"
    /\ now = ExpiryHours
    /\ flightDataSource = "localStorage-search"
    /\ localStorage["currentFlightDataKey"] = Absent
    /\ \E key \in FlightDataKeys :
           /\ localStorage[key] = Absent
           /\ airShoppingResponseData # EntryDoc(key)

----------------------------------------------------------------------------
(* C27 *)

\* no run of the effect is under way and no request is in flight
Quiescent == fetchPc = "done" /\ Pending = {}

\* C27: when flightId or the search parameters change while an earlier
\* pricing request is in flight, the priced offer finally displayed belongs
\* to the latest flightId, and a late response or error of the earlier
\* request never overwrites the state the later request produced.
C27_LatestRequestWins ==
    [][/\ (Quiescent' /\ pricedRequest' # 0) =>
              /\ pricingRequests'[pricedRequest'].offerId = flightId'
              /\ flightOffer'.id = flightId'
       /\ \A request \in Pending :
              (/\ request < Len(pricingRequests)
               /\ Len(pricingRequests) \in answered
               /\ ResponseResolved(request) \/ ResponseRejected(request))
                  => UNCHANGED <<pricedOffer, error, isLoading>>]_vars

----------------------------------------------------------------------------
(* C23, C26 *)

\* call i + 1 was made less than a second after call i
Superseded(i) == i < Len(calls) /\ calls[i + 1].sincePrevious < 1000

\* C23: calls made less than 1 second apart result in at most one POST,
\* carrying the parameters of the latest call: a call followed within the
\* second is never sent, and no call is sent twice.
C23_RapidCallsSendOnePost ==
    /\ \A post \in 1..Len(posts) :
           /\ ~Superseded(posts[post].call)
           /\ posts[post].params = calls[posts[post].call].params
    /\ \A one, other \in 1..Len(posts) : posts[one].call = posts[other].call => one = other

C23_Witness ==
    /\ Len(calls) = 3
    /\ Superseded(1) /\ Superseded(2)
    /\ calls[2].params # calls[3].params
    /\ Len(posts) = 1
    /\ posts[1].params = calls[3].params

\* C26: every promise returned by api.searchFlights eventually resolves or
\* rejects, also that of a call followed by another call within the
\* debounce window.
C26_EveryPromiseSettles ==
    \A i \in 1..MaxCalls :
        (i <= Len(calls)) ~> (i <= Len(calls) /\ calls[i].promise # "pending")

----------------------------------------------------------------------------
(* C25 *)

\* C25: whenever loading is false every displayed flight is one of the
\* offers of the most recent search (flights is a sub-list of allFlights);
\* after a new search that returns no offers the displayed list is empty.
C25_DisplayedFlightsAreCurrent ==
    ~loading =>
        \A i \in 1..Len(flights) : \E j \in 1..Len(allFlights) : flights[i] = allFlights[j]

====
